---- MODULE Spec2Model ----
(***************************************************************************)
(* Member portal of the farm estate: the session/approval gate and the     *)
(* navigation shell (App.tsx, Layout), the access-control page             *)
(* (AdminUsers.tsx), the shop cart and checkout (Shop.tsx) and the lodging *)
(* reservations (Reservations.tsx and its richer variant).                 *)
(*                                                                         *)
(* One browser runs the App; the backend tables are shared with other      *)
(* browsers, of which only the pages that write the tables are modelled.   *)
(* Every await of a handler is a point where other steps interleave, so a  *)
(* handler with n awaits is n+1 actions linked by an in-flight record.     *)
(***************************************************************************)
EXTENDS Integers, Sequences, FiniteSets, Bags, TLC

\* ------------------------------------------------------------------ domains

SuperAdminEmail == "admin@familiasaobento.com"

\* Accounts, identified by their e-mail; the auth identity and the profile id
\* are the same key.
Users == {SuperAdminEmail, "a@b.com"}

None == "none"

Roles == {"member", "admin", "visitor"}

\* enum Page
PageEnum ==
  {"login", "home", "reservations", "gallery", "finance", "events",
   "documents", "profile", "contact", "shop", "visitors", "admin_users"}

\* useState<boolean | null>: null is the empty tuple, a boolean b is <<b>>.
Null == << >>

Some(b) == << b >>

\* ------------------------------------------------------------------- bounds

\* checkUserInfo calls in flight at once in the one App
MaxLookups == 2

\* largest quantity of one cart line
MaxQuantity == 2

\* shop orders ever created
MaxProductReservations == 1

\* stored events
MaxEvents == 2

\* times the events page is entered
MaxMounts == 2

\* ticks of the clock in one INACTIVITY_LIMIT (a tick is ten minutes)
TicksPerWindow == 3

\* longest time without activity that is followed, in ticks
MaxIdle == 5

\* stored documents
MaxDocuments == 1

\* stored gallery items
MaxPhotos == 1

\* lodging reservations submitted through the form
MaxSubmissions == 2

\* stored lodging reservations the administrators act on
MaxReservations == 1

\* ---------------------------------------------------------------- variables

VARIABLES
  \* backend
  registered,    \* accounts that have an auth identity
  profiles,      \* table profiles: user -> [exists, approved, role]
  authUser,      \* the auth client's signed-in user of this browser, or None
  \* App component state
  session, isApproved, isAdmin, isVisitor, currentPage, loading,
  lastPage,      \* localStorage 'portal_last_page', None when absent
  boot,          \* "getSession" until the mount effect's getSession resolved
  lookups,       \* checkUserInfo calls in flight
  \* AdminUsersPage of an administrator's browser
  adminProfiles, \* its useState profiles: the list as last fetched
  \* backend, shop
  productsTable,            \* table products: product id -> price in cents
  productReservations,      \* table product_reservations: set of header rows
  productReservationItems,  \* table product_reservation_items, in insert order
  nextProductReservationId, \* the serial of product_reservations.id
  \* ShopPage component state
  products,      \* useState products: the list as fetched, id -> price
  cart, pickupDate, isSubmitting, message,
  checkout,      \* the handleCheckout call in flight, with what it closed over
  \* backend, lodging
  reservations,       \* table reservations: set of rows
  nextReservationId,  \* the serial of reservations.id
  \* ReservationsPage
  variant,       \* which of the two ReservationsPage sources is deployed
  formLoading, formError, submitted,  \* useState loading, error, submitted
  submission,    \* the handleSubmit call in flight
  allReservations, \* per admin browser: id and status of the rows as fetched
  refetching,    \* admin browsers with a fetchAllReservations in flight
  \* ShopPage, order lists
  myReservations,   \* useState myReservations: id and status as fetched
  shopReservations, \* useState reservations (admin): id and status as fetched
  shopRefetching,   \* which of the two order lists has a fetch in flight
  rejectionModal,   \* useState showRejectionModal, rejectionId, rejectionReason
  \* backend and EventsPage
  eventsTable,      \* table events: set of rows
  clock,            \* the instant of the browser's clock
  events,           \* useState events: the list as fetched, Null before
  eventsMount,      \* the mount effect of the events page and what it started
  \* backend, DocumentsPage and GalleryPage
  albums,           \* table albums: set of album ids
  fileRows,         \* tables documents and gallery: rows by table
  fileObjects,      \* object store: stored paths by bucket
  fileLists,        \* useState documents, photos: the rows as fetched
  fileRefetching,   \* which of the two lists has a fetch in flight
  fileDelete,       \* the running handleDelete / handleDeletePhoto
  albumDelete,      \* the running handleDeleteAlbum
  \* ShopPage, removal of one item of an order
  itemRemoval,      \* the running removal
  orderNotes,       \* column admin_notes of product_reservations: the removals noted
  \* AdminUsersPage
  adminOp,          \* the running handler of the access-control page
  \* App, inactivity timer
  timer,            \* Some(ticks until the armed timeout fires), Null when not armed
  sinceActivity,    \* ticks since the last activity event or the session start
  \* ReservationsPage, the text of the form
  form,             \* useState name, visitorCpf, visitorPhone, checkIn, notes
  formClosure,      \* the form values the running handleSubmit closed over
  reservationColumns, \* table reservations: columns notes, name, check_in by id
  submittedForms,   \* history: the form values each stored reservation came from
  \* VisitorsPage
  visitors,         \* useState visitors: the enriched list
  visitorsFetch,     \* the running fetchVisitors
  pageAdmin      \* per page with its own checkAdmin: useState isAdmin, the call

gateVars ==
  << registered, profiles, authUser, session, isApproved, isAdmin, isVisitor,
     currentPage, loading, lastPage, boot, lookups, adminProfiles >>

shopVars ==
  << productsTable, productReservations, productReservationItems,
     nextProductReservationId, products, cart, pickupDate, isSubmitting,
     message, checkout >>

lodgingVars ==
  << reservations, nextReservationId, variant, formLoading, formError,
     submitted, submission, allReservations, refetching >>

ordersVars == << myReservations, shopReservations, shopRefetching, rejectionModal >>

timerVars == << timer, sinceActivity >>

eventsVars == << eventsTable, clock, events, eventsMount >>

filesVars == << albums, fileRows, fileObjects, fileLists, fileRefetching,
               fileDelete, albumDelete >>

removalVars == << itemRemoval, orderNotes >>

adminVars == << adminOp >>

formVars == << form, formClosure, reservationColumns, submittedForms >>

registryVars == << visitors, visitorsFetch, pageAdmin >>

\* the groups that follow adminVars
afterAdmin == << timerVars, formVars, registryVars >>

\* the groups that follow removalVars
afterRemoval == << adminVars, afterAdmin >>

\* the groups that follow filesVars
afterFiles == << removalVars, afterRemoval >>

\* the groups that follow eventsVars
afterEvents == << filesVars, afterFiles >>

\* the groups that follow ordersVars
afterOrders == << eventsVars, afterEvents >>

\* the pages of moreVars, without the timer of the App
pagesVars == << ordersVars, eventsVars, filesVars, removalVars, adminVars,
               formVars, registryVars >>

\* the state of the pages other than the gate, the cart and the lodging form
moreVars == << ordersVars, afterOrders >>

vars == << gateVars, shopVars, lodgingVars, moreVars >>

\* ----------------------------------------------------------------- profiles

NoRow == [exists |-> FALSE, approved |-> FALSE, role |-> "member"]

Row(a, r) == [exists |-> TRUE, approved |-> a, role |-> r]

\* supabase.from('profiles').select('approved, role').eq('id', userId):
\* an array with the matching rows
SelectProfile(userId) ==
  IF profiles[userId].exists
    THEN << [approved |-> profiles[userId].approved,
             role |-> profiles[userId].role] >>
    ELSE << >>

\* role sent with signUp by the form in use
SignUpRole(mode) == IF mode = "visitor" THEN "visitor" ELSE "member"

\* the profile row the backend creates for a new identity
ProfileOnSignUp(role) == Row(FALSE, role)

\* ------------------------------------------------------------ checkUserInfo

\* checkUserInfo(userId) up to its first await: setLoading(true) is written by
\* the caller's action, the profile query is in flight.
StartLookup(userId) ==
  lookups (+) SetToBag({[phase |-> "query", userId |-> userId, data |-> << >>]})

\* one more call may start while fewer than MaxLookups are in flight
CanStartLookup == BagCardinality(lookups) < MaxLookups

\* the in-flight call l moves on to l2, or ends
LookupMoves(l, l2) == (lookups (-) SetToBag({l})) (+) SetToBag({l2})

LookupEnds(l) == lookups (-) SetToBag({l})

IsSuperAdmin(user) == user = SuperAdminEmail

\* FlagsFromData with an account that has no row let through
FlagsFromData_NoRowApproved(data, user) ==
  IF Len(data) > 0
    THEN [isApproved |-> Some(data[1].approved = TRUE \/ IsSuperAdmin(user)),
          isAdmin    |-> (data[1].role = "admin" \/ IsSuperAdmin(user)),
          isVisitor  |-> (data[1].role = "visitor")]
    ELSE [isApproved |-> Some(TRUE),
          isAdmin    |-> IsSuperAdmin(user),
          isVisitor  |-> FALSE]

\* the try branch after getUser: flags from the row read and the caller's e-mail
FlagsFromData(data, user) ==
  IF Len(data) > 0
    THEN [isApproved |-> Some(data[1].approved = TRUE \/ IsSuperAdmin(user)),
          isAdmin    |-> (data[1].role = "admin" \/ IsSuperAdmin(user)),
          isVisitor  |-> (data[1].role = "visitor")]
    ELSE [isApproved |-> Some(IsSuperAdmin(user)),
          isAdmin    |-> IsSuperAdmin(user),
          isVisitor  |-> FALSE]

\* FlagsFromError without the super-admin fallback
FlagsFromError_NoFallback(user) ==
  [isApproved |-> Some(FALSE), isAdmin |-> FALSE, isVisitor |-> FALSE]

\* the catch branch after getUser; isVisitor is not written for the super-admin
FlagsFromError(user) ==
  IF IsSuperAdmin(user)
    THEN [isApproved |-> Some(TRUE), isAdmin |-> TRUE, isVisitor |-> isVisitor]
    ELSE [isApproved |-> Some(FALSE), isAdmin |-> FALSE, isVisitor |-> FALSE]

\* the profile query of the call l resolves: rows, or an error that is thrown
LookupQueryResolves(l, ok) ==
  /\ l \in BagToSet(lookups)
  /\ l.phase = "query"
  /\ lookups' = LookupMoves(l,
       IF ok THEN [phase |-> "getUser", userId |-> l.userId,
                   data |-> SelectProfile(l.userId)]
             ELSE [phase |-> "catch", userId |-> l.userId, data |-> << >>])
  /\ UNCHANGED << registered, profiles, authUser, session, isApproved, isAdmin,
                  isVisitor, currentPage, loading, lastPage, boot, adminProfiles >>
  /\ UNCHANGED << shopVars, lodgingVars, moreVars >>

\* the flags checkUserInfo sets once getUser resolved with user
LookupFlags(l, user) ==
  IF l.phase = "getUser" THEN FlagsFromData(l.data, user) ELSE FlagsFromError(user)

\* supabase.auth.getUser() resolves with the browser's signed-in user; the flags
\* are set and finally setLoading(false)
LookupGetUserResolves(l) ==
  /\ l \in BagToSet(lookups)
  /\ l.phase \in {"getUser", "catch"}
  /\ isApproved' = LookupFlags(l, authUser).isApproved
  /\ isAdmin' = LookupFlags(l, authUser).isAdmin
  /\ isVisitor' = LookupFlags(l, authUser).isVisitor
  /\ loading' = FALSE
  /\ lookups' = LookupEnds(l)
  /\ UNCHANGED << registered, profiles, authUser, session, currentPage,
                  lastPage, boot, adminProfiles >>
  /\ UNCHANGED << shopVars, lodgingVars, moreVars >>

\* --------------------------------------------------------------- auth events

\* the persistence effect, run after a render that changed currentPage or session
PersistedPage(sess, page, stored) == IF sess # None THEN page ELSE stored

\* the timeout after resetTimer(): INACTIVITY_LIMIT from now
ResetTimer == Some(TicksPerWindow)

\* the inactivity effect, run after a render that follows setSession(sess):
\* the cleanup of the previous run clears its timeout, and with a session
\* resetTimer() arms a new one.  setSession gets a new object on every auth
\* event, so the effect runs on each of them.
InactivityEffect(sess) ==
  /\ timer' = IF sess # None THEN ResetTimer ELSE Null
  /\ sinceActivity' = IF sess # None /\ session = None THEN 0 ELSE sinceActivity

\* the onAuthStateChange callback for (event, session of user u or null)
OnAuthStateChange(event, u) ==
  /\ session' = u
  /\ InactivityEffect(u)
  /\ IF u # None
       THEN /\ CanStartLookup
            /\ currentPage' = IF event = "SIGNED_IN" /\ lastPage = None
                                THEN "home" ELSE currentPage
            /\ loading' = TRUE
            /\ lookups' = StartLookup(u)
            /\ lastPage' = PersistedPage(u, currentPage', lastPage)
            /\ UNCHANGED << isApproved, isAdmin, isVisitor >>
       ELSE /\ isApproved' = Null
            /\ isAdmin' = FALSE
            /\ isVisitor' = FALSE
            /\ currentPage' = "home"
            /\ lastPage' = None
            /\ loading' = FALSE
            /\ UNCHANGED lookups

\* the mount effect: getSession().then(...)
GetSessionThen ==
  /\ boot = "getSession"
  /\ boot' = "mounted"
  /\ session' = authUser
  /\ IF authUser # None
       THEN /\ CanStartLookup
            /\ loading' = TRUE
            /\ lookups' = StartLookup(authUser)
       ELSE /\ loading' = FALSE
            /\ UNCHANGED lookups
  /\ lastPage' = PersistedPage(authUser, currentPage, lastPage)
  /\ InactivityEffect(authUser)
  /\ UNCHANGED << registered, profiles, authUser, isApproved, isAdmin,
                  isVisitor, currentPage, adminProfiles >>
  /\ UNCHANGED << shopVars, lodgingVars, pagesVars >>

\* ------------------------------------------------------------------- render

\* what App returns: the spinner, the login page, the pending screen or the Layout
Render ==
  IF loading THEN "spinner"
  ELSE IF session = None THEN "login"
  ELSE IF isApproved = Some(FALSE) /\ ~isAdmin THEN "pending"
  ELSE "portal"

\* renderContent without the isAdmin test on the two administrator pages
RenderContent_AdminPagesOpen(page, admin, visitor) ==
  CASE page = "home" -> "HomePage"
    [] page = "finance" -> IF visitor THEN "HomePage" ELSE "FinancePage"
    [] page = "reservations" -> "ReservationsPage"
    [] page = "events" -> IF visitor THEN "HomePage" ELSE "EventsPage"
    [] page = "documents" -> IF visitor THEN "HomePage" ELSE "DocumentsPage"
    [] page = "gallery" -> IF visitor THEN "HomePage" ELSE "GalleryPage"
    [] page = "profile" ->
         IF admin THEN "MembersPage"
         ELSE IF visitor THEN "HomePage" ELSE "ProfilePage"
    [] page = "contact" -> IF visitor THEN "HomePage" ELSE "ContactPage"
    [] page = "shop" -> IF visitor THEN "HomePage" ELSE "ShopPage"
    [] page = "visitors" -> "VisitorsPage"
    [] page = "admin_users" -> "AdminUsersPage"
    [] OTHER -> "HomePage"

\* renderContent: the page component shown for currentPage
RenderContent(page, admin, visitor) ==
  CASE page = "home" -> "HomePage"
    [] page = "finance" -> IF visitor THEN "HomePage" ELSE "FinancePage"
    [] page = "reservations" -> "ReservationsPage"
    [] page = "events" -> IF visitor THEN "HomePage" ELSE "EventsPage"
    [] page = "documents" -> IF visitor THEN "HomePage" ELSE "DocumentsPage"
    [] page = "gallery" -> IF visitor THEN "HomePage" ELSE "GalleryPage"
    [] page = "profile" ->
         IF admin THEN "MembersPage"
         ELSE IF visitor THEN "HomePage" ELSE "ProfilePage"
    [] page = "contact" -> IF visitor THEN "HomePage" ELSE "ContactPage"
    [] page = "shop" -> IF visitor THEN "HomePage" ELSE "ShopPage"
    [] page = "visitors" -> IF admin THEN "VisitorsPage" ELSE "HomePage"
    [] page = "admin_users" -> IF admin THEN "AdminUsersPage" ELSE "HomePage"
    [] OTHER -> "HomePage"

\* Layout: navItems in order
NavItems ==
  << "home", "reservations", "events", "documents", "gallery", "finance",
     "shop", "profile", "contact" >>

VisitorItem(p) == p \in {"home", "reservations", "shop"}

\* Layout: filteredNavItems for the flags
FilteredNavItems(admin, visitor) ==
  LET base == IF visitor THEN SelectSeq(NavItems, VisitorItem) ELSE NavItems
  IN  IF admin THEN base \o << "visitors", "admin_users" >> ELSE base

MenuPages(admin, visitor) ==
  {FilteredNavItems(admin, visitor)[k] :
     k \in 1..Len(FilteredNavItems(admin, visitor))}

\* ------------------------------------------------------- login page, layout

\* handleAuth in register or visitor mode: signUp creates the identity, the
\* backend creates its profile row
SignUp(u, mode) ==
  /\ u \notin registered
  /\ registered' = registered \cup {u}
  /\ profiles' = [profiles EXCEPT ![u] = ProfileOnSignUp(SignUpRole(mode))]
  /\ UNCHANGED << authUser, session, isApproved, isAdmin, isVisitor,
                  currentPage, loading, lastPage, boot, lookups, adminProfiles >>
  /\ UNCHANGED << shopVars, lodgingVars, moreVars >>

\* handleAuth in login mode, signInWithPassword succeeding: SIGNED_IN is delivered
SignIn(u) ==
  /\ Render = "login"
  /\ u \in registered
  /\ authUser' = u
  /\ OnAuthStateChange("SIGNED_IN", u)
  /\ UNCHANGED << registered, profiles, boot, adminProfiles >>
  /\ UNCHANGED << shopVars, lodgingVars, pagesVars >>

\* the auth client refreshes the token of the running session
TokenRefreshed ==
  /\ authUser # None
  /\ boot = "mounted"
  /\ OnAuthStateChange("TOKEN_REFRESHED", authUser)
  /\ UNCHANGED << registered, profiles, authUser, boot, adminProfiles >>
  /\ UNCHANGED << shopVars, lodgingVars, pagesVars >>

\* the session ends without handleSignOut (expiry, sign-out in another tab)
SignedOut ==
  /\ authUser # None
  /\ authUser' = None
  /\ OnAuthStateChange("SIGNED_OUT", None)
  /\ UNCHANGED << registered, profiles, boot, adminProfiles >>
  /\ UNCHANGED << shopVars, lodgingVars, pagesVars >>

\* handleSignOut, from the pending screen or the Layout: the stored page is
\* removed and signOut() is called without await; when it has ended the
\* session, SIGNED_OUT is delivered (SignedOut)
HandleSignOut ==
  /\ Render \in {"pending", "portal"}
  /\ lastPage' = None
  /\ UNCHANGED << registered, profiles, authUser, session, isApproved, isAdmin,
                  isVisitor, currentPage, loading, boot, lookups, adminProfiles >>
  /\ UNCHANGED << shopVars, lodgingVars, moreVars >>

\* Layout onNavigate = setCurrentPage, from a menu entry
Navigate(p) ==
  /\ Render = "portal"
  /\ p \in MenuPages(isAdmin, isVisitor)
  /\ p # currentPage
  /\ currentPage' = p
  /\ lastPage' = PersistedPage(session, p, lastPage)
  /\ UNCHANGED << registered, profiles, authUser, session, isApproved, isAdmin,
                  isVisitor, loading, boot, lookups, adminProfiles >>
  /\ UNCHANGED << shopVars, lodgingVars, moreVars >>

\* the page is loaded again: App is constructed anew, currentPage from storage;
\* the auth client keeps its session, pending promises are gone
Reload ==
  /\ boot = "mounted"
  /\ boot' = "getSession"
  /\ session' = None
  /\ isApproved' = Null
  /\ isAdmin' = FALSE
  /\ isVisitor' = FALSE
  /\ currentPage' = IF lastPage # None THEN lastPage ELSE "home"
  /\ loading' = TRUE
  /\ lookups' = EmptyBag
  /\ InactivityEffect(None)
  /\ UNCHANGED << registered, profiles, authUser, lastPage, adminProfiles >>
  /\ UNCHANGED << shopVars, lodgingVars, pagesVars >>

\* ------------------------------------------------------------ AdminUsersPage

\* fetchProfiles succeeding: the list is the table as it is now
FetchProfiles ==
  /\ adminProfiles # profiles
  /\ adminProfiles' = profiles
  /\ UNCHANGED << registered, profiles, authUser, session, isApproved, isAdmin,
                  isVisitor, currentPage, loading, lastPage, boot, lookups >>
  /\ UNCHANGED << shopVars, lodgingVars, moreVars >>

\* UpdateProfile that also puts the role of the row back to member
UpdateProfile_ResetsRole(id, field, value) ==
  IF profiles[id].exists
    THEN [profiles EXCEPT ![id] =
            IF field = "approved" THEN [@ EXCEPT !.approved = value, !.role = "member"]
                                  ELSE [@ EXCEPT !.role = value]]
    ELSE profiles

\* UpdateProfile with a filter that matches no row: nothing is written, no error
UpdateProfile_NoMatch(id, field, value) == profiles

\* update(patch).eq('id', id): the row, when there is one, with the patch applied
UpdateProfile(id, field, value) ==
  IF profiles[id].exists
    THEN [profiles EXCEPT ![id] =
            IF field = "approved" THEN [@ EXCEPT !.approved = value]
                                  ELSE [@ EXCEPT !.role = value]]
    ELSE profiles

\* { approved: !currentStatus }
ToggledApproval(currentStatus) == ~currentStatus

\* the handler of the access-control page that is running: phase "confirm"
\* while its confirm() dialog is open, "update" while its write is awaited,
\* "alert" while the alert() of its catch block is open.  list is the profiles
\* of the render the handler was called from.  The dialogs block the page, and
\* the model takes one handler at a time.
NoAdminOp ==
  [phase |-> "idle", handler |-> "approval", id |-> None, approved |-> FALSE,
   role |-> "member", list |-> [u \in Users |-> NoRow]]

\* handleToggleApproval(profile.id, profile.approved) on a listed row, up to
\* the await of the update
HandleToggleApproval(id) ==
  /\ adminOp.phase = "idle"
  /\ adminProfiles[id].exists
  /\ adminOp' = [NoAdminOp EXCEPT !.phase = "update", !.handler = "approval",
                   !.id = id,
                   !.approved = ToggledApproval(adminProfiles[id].approved),
                   !.list = adminProfiles]
  /\ UNCHANGED gateVars
  /\ UNCHANGED << shopVars, lodgingVars, ordersVars, eventsVars, filesVars,
                  removalVars, afterAdmin >>

ToggledRole(currentRole) == IF currentRole = "admin" THEN "member" ELSE "admin"

\* handleToggleRole(profile.id, profile.role) on a listed row, up to confirm()
HandleToggleRole(id) ==
  /\ adminOp.phase = "idle"
  /\ adminProfiles[id].exists
  /\ adminOp' = [NoAdminOp EXCEPT !.phase = "confirm", !.handler = "role",
                   !.id = id, !.role = ToggledRole(adminProfiles[id].role),
                   !.list = adminProfiles]
  /\ UNCHANGED gateVars
  /\ UNCHANGED << shopVars, lodgingVars, ordersVars, eventsVars, filesVars,
                  removalVars, afterAdmin >>

\* handleDeleteUser(profile.id, profile.full_name) on a listed row, up to
\* confirm()
HandleDeleteUser(id) ==
  /\ adminOp.phase = "idle"
  /\ adminProfiles[id].exists
  /\ adminOp' = [NoAdminOp EXCEPT !.phase = "confirm", !.handler = "delete",
                   !.id = id, !.list = adminProfiles]
  /\ UNCHANGED gateVars
  /\ UNCHANGED << shopVars, lodgingVars, ordersVars, eventsVars, filesVars,
                  removalVars, afterAdmin >>

\* confirm() returns: the handler returns when it was declined, else it goes
\* on to its write
AdminConfirmReturns(accepted) ==
  /\ adminOp.phase = "confirm"
  /\ adminOp' = IF accepted THEN [adminOp EXCEPT !.phase = "update"] ELSE NoAdminOp
  /\ UNCHANGED gateVars
  /\ UNCHANGED << shopVars, lodgingVars, ordersVars, eventsVars, filesVars,
                  removalVars, afterAdmin >>

\* AdminWrite whose delete matches no row
AdminWrite_DeleteNoMatch ==
  CASE adminOp.handler = "approval" ->
         UpdateProfile(adminOp.id, "approved", adminOp.approved)
    [] adminOp.handler = "role" ->
         UpdateProfile(adminOp.id, "role", adminOp.role)
    [] OTHER -> profiles

\* the write of the running handler on profiles
AdminWrite ==
  CASE adminOp.handler = "approval" ->
         UpdateProfile(adminOp.id, "approved", adminOp.approved)
    [] adminOp.handler = "role" ->
         UpdateProfile(adminOp.id, "role", adminOp.role)
    [] OTHER -> [profiles EXCEPT ![adminOp.id] = NoRow]

\* setProfiles(profiles.map(...)) / setProfiles(profiles.filter(...)) over the
\* list of the handler's render
AdminListAfter ==
  CASE adminOp.handler = "approval" ->
         [adminOp.list EXCEPT ![adminOp.id].approved = adminOp.approved]
    [] adminOp.handler = "role" ->
         [adminOp.list EXCEPT ![adminOp.id].role = adminOp.role]
    [] OTHER -> [adminOp.list EXCEPT ![adminOp.id] = NoRow]

\* the update or delete resolves; on an error the catch block alerts
AdminWriteResolves(ok) ==
  /\ adminOp.phase = "update"
  /\ IF ok
       THEN /\ profiles' = AdminWrite
            /\ adminProfiles' = AdminListAfter
            /\ adminOp' = NoAdminOp
       ELSE /\ adminOp' = [adminOp EXCEPT !.phase = "alert"]
            /\ UNCHANGED << profiles, adminProfiles >>
  /\ UNCHANGED << registered, authUser, session, isApproved, isAdmin, isVisitor,
                  currentPage, loading, lastPage, boot, lookups >>
  /\ UNCHANGED << shopVars, lodgingVars, ordersVars, eventsVars, filesVars,
                  removalVars, afterAdmin >>

\* the alert is dismissed and the handler returns
AdminAlertDismissed ==
  /\ adminOp.phase = "alert"
  /\ adminOp' = NoAdminOp
  /\ UNCHANGED gateVars
  /\ UNCHANGED << shopVars, lodgingVars, ordersVars, eventsVars, filesVars,
                  removalVars, afterAdmin >>

\* handleToggleApproval of another administrator's session, whose list shows
\* the row as stored, taking effect on the table
OtherSessionTogglesApproval(id) ==
  /\ profiles[id].exists
  /\ profiles' = UpdateProfile(id, "approved", ToggledApproval(profiles[id].approved))
  /\ UNCHANGED << registered, authUser, session, isApproved, isAdmin, isVisitor,
                  currentPage, loading, lastPage, boot, lookups, adminProfiles >>
  /\ UNCHANGED << shopVars, lodgingVars, moreVars >>

\* no handler of the access-control page running
AdminInit == adminOp = NoAdminOp

\* ------------------------------------------------------------------ ShopPage

\* Prices are in cents: 10.00 is 1000.  The binary rounding of the JavaScript
\* number type is outside this model.
ProductIds == {1, 2}

Catalog == [id \in ProductIds |-> IF id = 1 THEN 1000 ELSE 550]

PickupDates == {"2026-12-24"}

\* no list fetched yet: useState<Product[]>([])
NoProducts == [id \in {} |-> 0]

\* fetchProducts succeeding, which the mount effect starts
FetchProducts ==
  /\ products = NoProducts
  /\ products' = productsTable
  /\ UNCHANGED << productsTable, productReservations, productReservationItems,
                  nextProductReservationId, cart, pickupDate, isSubmitting,
                  message, checkout >>
  /\ UNCHANGED << gateVars, lodgingVars, moreVars >>

HasLine(prev, productId) ==
  \E i \in 1..Len(prev) : prev[i].product.id = productId

LineOf(prev, productId) ==
  CHOOSE i \in 1..Len(prev) : prev[i].product.id = productId

\* the updater of addToCart
AddToCartResult(prev, product) ==
  IF HasLine(prev, product.id)
    THEN [i \in 1..Len(prev) |->
            IF prev[i].product.id = product.id
              THEN [prev[i] EXCEPT !.quantity = @ + 1]
              ELSE prev[i]]
    ELSE Append(prev, [product |-> product, quantity |-> 1])

KeepsOtherProducts(item, productId) == item.product.id # productId

\* the updater of removeFromCart
RemoveFromCartResult(prev, productId) ==
  SelectSeq(prev, LAMBDA item : KeepsOtherProducts(item, productId))

Max(a, b) == IF a >= b THEN a ELSE b

\* UpdateQuantityResult without the lower limit of one
UpdateQuantityResult_Unclamped(prev, productId, delta) ==
  [i \in 1..Len(prev) |->
     IF prev[i].product.id = productId
       THEN [prev[i] EXCEPT !.quantity = @ + delta]
       ELSE prev[i]]

\* the updater of updateQuantity
UpdateQuantityResult(prev, productId, delta) ==
  [i \in 1..Len(prev) |->
     IF prev[i].product.id = productId
       THEN [prev[i] EXCEPT !.quantity = Max(1, @ + delta)]
       ELSE prev[i]]

RECURSIVE CalculateTotal_PricesOnly(_)
\* CalculateTotal that leaves the quantity out of each term
CalculateTotal_PricesOnly(c) ==
  IF c = << >>
    THEN 0
    ELSE CalculateTotal_PricesOnly(SubSeq(c, 1, Len(c) - 1))
           + c[Len(c)].product.price

RECURSIVE CalculateTotal(_)
\* calculateTotal over the cart c of the render it belongs to:
\* c.reduce((sum, item) => sum + item.product.price * item.quantity, 0)
CalculateTotal(c) ==
  IF c = << >>
    THEN 0
    ELSE CalculateTotal(SubSeq(c, 1, Len(c) - 1))
           + (c[Len(c)].product.price * c[Len(c)].quantity)

\* ItemsToInsert that maps only the first cart line
ItemsToInsert_FirstLineOnly(c, reservationId) ==
  << [reservation_id |-> reservationId, product_id |-> c[1].product.id,
      quantity |-> c[1].quantity, unit_price |-> c[1].product.price] >>

\* itemsToInsert = cart.map(...)
ItemsToInsert(c, reservationId) ==
  [i \in 1..Len(c) |->
     [reservation_id |-> reservationId, product_id |-> c[i].product.id,
      quantity |-> c[i].quantity, unit_price |-> c[i].product.price]]

\* the "add" button of a listed product
AddToCart(productId) ==
  /\ productId \in DOMAIN products
  /\ HasLine(cart, productId) => cart[LineOf(cart, productId)].quantity < MaxQuantity
  /\ cart' = AddToCartResult(cart, [id |-> productId, price |-> products[productId]])
  /\ UNCHANGED << productsTable, productReservations, productReservationItems,
                  nextProductReservationId, products, pickupDate, isSubmitting,
                  message, checkout >>
  /\ UNCHANGED << gateVars, lodgingVars, moreVars >>

\* the bin button of a cart line
RemoveFromCart(productId) ==
  /\ HasLine(cart, productId)
  /\ cart' = RemoveFromCartResult(cart, productId)
  /\ UNCHANGED << productsTable, productReservations, productReservationItems,
                  nextProductReservationId, products, pickupDate, isSubmitting,
                  message, checkout >>
  /\ UNCHANGED << gateVars, lodgingVars, moreVars >>

\* the - and + buttons of a cart line
UpdateQuantity(productId, delta) ==
  /\ HasLine(cart, productId)
  /\ cart[LineOf(cart, productId)].quantity + delta <= MaxQuantity
  /\ cart' = UpdateQuantityResult(cart, productId, delta)
  /\ UNCHANGED << productsTable, productReservations, productReservationItems,
                  nextProductReservationId, products, pickupDate, isSubmitting,
                  message, checkout >>
  /\ UNCHANGED << gateVars, lodgingVars, moreVars >>

\* the date input of the cart form, shown while the cart has lines
SetPickupDate(value) ==
  /\ cart # << >>
  /\ value # pickupDate
  /\ pickupDate' = value
  /\ UNCHANGED << productsTable, productReservations, productReservationItems,
                  nextProductReservationId, products, cart, isSubmitting,
                  message, checkout >>
  /\ UNCHANGED << gateVars, lodgingVars, moreVars >>

NoCheckout ==
  [phase |-> "idle", cart |-> << >>, pickupDate |-> "", user |-> None,
   reservation |-> 0]

ErrorMessage(text) == Some([type |-> "error", text |-> text])

SuccessMessage == Some([type |-> "success", text |-> "Pedido de reserva realizado"])

\* handleCheckout up to its first await; the submit button is disabled while
\* isSubmitting.  The call closes over cart and pickupDate of this render.
HandleCheckout ==
  /\ cart # << >>
  /\ ~isSubmitting
  /\ nextProductReservationId <= MaxProductReservations
  /\ IF pickupDate = ""
       THEN /\ message' = ErrorMessage("Por favor, selecione uma data")
            /\ UNCHANGED << isSubmitting, checkout >>
       ELSE /\ isSubmitting' = TRUE
            /\ message' = Null
            /\ checkout' = [NoCheckout EXCEPT !.phase = "getUser", !.cart = cart,
                                              !.pickupDate = pickupDate]
  /\ UNCHANGED << productsTable, productReservations, productReservationItems,
                  nextProductReservationId, products, cart, pickupDate >>
  /\ UNCHANGED << gateVars, lodgingVars, moreVars >>

\* catch and finally of handleCheckout
CheckoutFails ==
  /\ message' = ErrorMessage("Erro ao processar reserva")
  /\ isSubmitting' = FALSE
  /\ checkout' = NoCheckout

\* supabase.auth.getUser() resolves
CheckoutGetUserResolves ==
  /\ checkout.phase = "getUser"
  /\ IF authUser = None
       THEN CheckoutFails
       ELSE /\ checkout' = [checkout EXCEPT !.phase = "header", !.user = authUser]
            /\ UNCHANGED << message, isSubmitting >>
  /\ UNCHANGED << productsTable, productReservations, productReservationItems,
                  nextProductReservationId, products, cart, pickupDate >>
  /\ UNCHANGED << gateVars, lodgingVars, moreVars >>

\* the header insert with .select().single() resolves
CheckoutHeaderResolves(ok) ==
  /\ checkout.phase = "header"
  /\ IF ok
       THEN /\ productReservations' = productReservations \cup
                 { [id |-> nextProductReservationId,
                    user_id |-> checkout.user,
                    pickup_date |-> checkout.pickupDate,
                    total_price |-> CalculateTotal(checkout.cart),
                    status |-> "pending"] }
            /\ nextProductReservationId' = nextProductReservationId + 1
            /\ checkout' = [checkout EXCEPT !.phase = "items",
                                            !.reservation = nextProductReservationId]
            /\ UNCHANGED << message, isSubmitting >>
       ELSE /\ CheckoutFails
            /\ UNCHANGED << productReservations, nextProductReservationId >>
  /\ UNCHANGED << productsTable, productReservationItems, products, cart,
                  pickupDate >>
  /\ UNCHANGED << gateVars, lodgingVars, moreVars >>

\* CheckoutItemsResolves that makes up for a failed item insert: it deletes the
\* header and empties the form
CheckoutItemsResolves_Compensating(ok) ==
  /\ checkout.phase = "items"
  /\ IF ok
       THEN /\ productReservationItems' = productReservationItems \o
                 ItemsToInsert(checkout.cart, checkout.reservation)
            /\ message' = SuccessMessage
            /\ isSubmitting' = FALSE
            /\ checkout' = NoCheckout
            /\ UNCHANGED productReservations
       ELSE /\ CheckoutFails
            /\ productReservations' =
                 {r \in productReservations : r.id # checkout.reservation}
            /\ UNCHANGED productReservationItems
  /\ cart' = << >>
  /\ pickupDate' = ""
  /\ UNCHANGED << productsTable, nextProductReservationId, products >>
  /\ UNCHANGED << gateVars, lodgingVars, moreVars >>

\* the batch insert of the item rows resolves
CheckoutItemsResolves(ok) ==
  /\ checkout.phase = "items"
  /\ IF ok
       THEN /\ productReservationItems' = productReservationItems \o
                 ItemsToInsert(checkout.cart, checkout.reservation)
            /\ message' = SuccessMessage
            /\ cart' = << >>
            /\ pickupDate' = ""
            /\ isSubmitting' = FALSE
            /\ checkout' = NoCheckout
       ELSE /\ CheckoutFails
            /\ UNCHANGED << productReservationItems, cart, pickupDate >>
  /\ UNCHANGED << productsTable, productReservations, nextProductReservationId,
                  products >>
  /\ UNCHANGED << gateVars, lodgingVars, moreVars >>

\* the backend stops accepting the token of this browser (expired, revoked):
\* getUser() then returns no user, before any auth event reaches the App
SessionInvalidated ==
  /\ authUser # None
  /\ authUser' = None
  /\ UNCHANGED << registered, profiles, session, isApproved, isAdmin, isVisitor,
                  currentPage, loading, lastPage, boot, lookups, adminProfiles >>
  /\ UNCHANGED << shopVars, lodgingVars, moreVars >>

\* ---------------------------------------------------------- ReservationsPage

\* "simple" is src/pages/Reservations.tsx, "rich" the variant with the visitor
\* form and the admin notes
Variants == {"simple", "rich"}

Statuses == {"pending", "confirmed", "rejected", "canceled"}

\* browsers of administrators with the reservations page open
AdminSessions == {1, 2}

NoSubmission == [phase |-> "idle", user |-> None, visitorData |-> FALSE]

\* A text is a sequence of tokens: words, the labels that end in a colon, the
\* space " " and the line break "\n".

\* { name: '', age: '' }
EmptyGuest == [name |-> "", age |-> ""]

\* the form as useState leaves it and as a successful submit resets it
EmptyForm ==
  [name |-> << >>, visitorCpf |-> << >>, visitorPhone |-> << >>,
   checkIn |-> Null, notes |-> << >>,
   numGuests |-> 1, guestsDetails |-> << EmptyGuest >>]

\* what is typed into the input "name" (for a visitor: the host member)
HostNames == { << "Joao" >> }

\* what is typed into "visitorCpf"
CpfTexts == { << "123", " " >> }

\* what is typed into "visitorPhone"
PhoneTexts == { << "999" >> }

\* the days picked in "checkin"
CheckInDays == 1..2

\* what is typed into the textarea "notes"
FreeTexts ==
  { << "ola" >>,
    << "meu", " ", "cpf:", " ", "000", "\n", "Telefone:", " ", "fixo" >> }

\* setVisitorName(profile.full_name)
VisitorName == << "Ana" >>

\* setVisitorEmail(user.email)
VisitorEmail == << "a@b.com" >>

\* the form that the reservations stored before the page was opened came from
StoredForm ==
  [name |-> << "Joao" >>, visitorCpf |-> << "123" >>, visitorPhone |-> << "999" >>,
   checkIn |-> Some(1), notes |-> << >>,
   numGuests |-> 1, guestsDetails |-> << [name |-> "Ana", age |-> "7"] >>]

\* the inputs marked required are filled and the input "guests" is not below
\* its min="1": the browser calls onSubmit only then
RequiredFilled(f, visitor) ==
  /\ f.name # << >>
  /\ f.checkIn # Null
  /\ f.numGuests >= 1
  /\ visitor => (f.visitorCpf # << >> /\ f.visitorPhone # << >>)

\* the template literal of the notes column
ComposeNotes(f, visitorData) ==
  f.notes \o
    (IF visitorData
       THEN << "\n", "\n", "--- Dados do Visitante ---", "\n", "Nome:", " " >>
              \o VisitorName
              \o << "\n", "CPF:", " " >> \o f.visitorCpf
              \o << "\n", "E-mail:", " " >> \o VisitorEmail
              \o << "\n", "Telefone:", " " >> \o f.visitorPhone
              \o << "\n", "Chegada Prevista:", " ", "\n", "Saida Prevista:", " " >>
       ELSE << >>)

\* the columns of the inserted row that the visitor registry reads, and the
\* two guest columns; the object passed to insert has no key "name", the
\* column stays null
InsertedColumns(f, visitorData) ==
  [notes |-> ComposeNotes(f, visitorData), name |-> Null, check_in |-> f.checkIn[1],
   num_guests |-> f.numGuests, guests_details |-> f.guestsDetails]

\* what e.target.value of the input "guests" can be: the empty string for a
\* text that is no number, else the number as typed
GuestInputs == {"", "0", "1", "2", "3", "-1", "-2", "2.7"}

\* parseInt(e.target.value): NaN is Null
ParseInt(text) ==
  CASE text = "" -> Null
    [] text = "0" -> Some(0)
    [] text = "1" -> Some(1)
    [] text = "2" -> Some(2)
    [] text = "3" -> Some(3)
    [] text = "-1" -> Some(-1)
    [] text = "-2" -> Some(-2)
    [] text = "2.7" -> Some(2)

\* parseInt(e.target.value) || 1: NaN and 0 are falsy
ParsedOrOne(text) ==
  IF ParseInt(text) = Null \/ ParseInt(text) = Some(0) THEN 1 ELSE ParseInt(text)[1]

\* newList.splice(start): a negative start counts from the end, not before 0
Splice(list, start) ==
  SubSeq(list, 1, IF start < 0 THEN Max(Len(list) + start, 0) ELSE start)

\* the updater handleNumGuestsChange passes to setGuestsDetails
GuestsUpdater(prev, value) ==
  IF value > Len(prev)
    THEN prev \o [i \in 1..(value - Len(prev)) |-> EmptyGuest]
    ELSE IF value < Len(prev) THEN Splice(prev, value) ELSE prev

\* onChange of the input "guests"
HandleNumGuestsChange(text) ==
  /\ form' = [form EXCEPT !.numGuests = ParsedOrOne(text),
                          !.guestsDetails = GuestsUpdater(@, ParsedOrOne(text))]
  /\ form' # form
  /\ UNCHANGED << formClosure, reservationColumns, submittedForms >>
  /\ UNCHANGED << gateVars, shopVars, lodgingVars, ordersVars, eventsVars,
                  filesVars, removalVars, adminVars, timerVars, registryVars >>

\* onChange of the name or age input of the guest at index; the inputs are
\* rendered while numGuests > 0, one pair for each entry of guestsDetails
HandleGuestDetailChange(index, field, value) ==
  /\ form.numGuests > 0
  /\ index \in 1..Len(form.guestsDetails)
  /\ form.guestsDetails[index][field] # value
  /\ form' = [form EXCEPT !.guestsDetails[index][field] = value]
  /\ UNCHANGED << formClosure, reservationColumns, submittedForms >>
  /\ UNCHANGED << gateVars, shopVars, lodgingVars, ordersVars, eventsVars,
                  filesVars, removalVars, adminVars, timerVars, registryVars >>

\* onChange of the input "name"
SetName(v) ==
  /\ v # form.name
  /\ form' = [form EXCEPT !.name = v]
  /\ UNCHANGED << formClosure, reservationColumns, submittedForms >>
  /\ UNCHANGED << gateVars, shopVars, lodgingVars, ordersVars, eventsVars,
                  filesVars, removalVars, adminVars, timerVars, registryVars >>

\* onChange of the input "visitorCpf", rendered for a visitor
SetVisitorCpf(v) ==
  /\ variant = "rich" /\ isVisitor
  /\ v # form.visitorCpf
  /\ form' = [form EXCEPT !.visitorCpf = v]
  /\ UNCHANGED << formClosure, reservationColumns, submittedForms >>
  /\ UNCHANGED << gateVars, shopVars, lodgingVars, ordersVars, eventsVars,
                  filesVars, removalVars, adminVars, timerVars, registryVars >>

\* onChange of the input "visitorPhone", rendered for a visitor
SetVisitorPhone(v) ==
  /\ variant = "rich" /\ isVisitor
  /\ v # form.visitorPhone
  /\ form' = [form EXCEPT !.visitorPhone = v]
  /\ UNCHANGED << formClosure, reservationColumns, submittedForms >>
  /\ UNCHANGED << gateVars, shopVars, lodgingVars, ordersVars, eventsVars,
                  filesVars, removalVars, adminVars, timerVars, registryVars >>

\* onChange of the input "checkin"
SetCheckIn(d) ==
  /\ Some(d) # form.checkIn
  /\ form' = [form EXCEPT !.checkIn = Some(d)]
  /\ UNCHANGED << formClosure, reservationColumns, submittedForms >>
  /\ UNCHANGED << gateVars, shopVars, lodgingVars, ordersVars, eventsVars,
                  filesVars, removalVars, adminVars, timerVars, registryVars >>

\* onChange of the textarea "notes"
SetNotes(v) ==
  /\ v # form.notes
  /\ form' = [form EXCEPT !.notes = v]
  /\ UNCHANGED << formClosure, reservationColumns, submittedForms >>
  /\ UNCHANGED << gateVars, shopVars, lodgingVars, ordersVars, eventsVars,
                  filesVars, removalVars, adminVars, timerVars, registryVars >>

\* the notes column as handleSubmit builds it: the rich variant appends the
\* "--- Dados do Visitante ---" block when isVisitor
NotesHaveVisitorData(v, visitor) == v = "rich" /\ visitor

\* handleSubmit up to its first await; the submit button is disabled while
\* loading
HandleSubmit ==
  /\ ~formLoading
  /\ nextReservationId <= MaxSubmissions
  /\ RequiredFilled(form, NotesHaveVisitorData(variant, isVisitor))
  /\ formLoading' = TRUE
  /\ formError' = Null
  /\ submission' = [NoSubmission EXCEPT !.phase = "getUser",
                      !.visitorData = NotesHaveVisitorData(variant, isVisitor)]
  /\ formClosure' = form
  /\ UNCHANGED << form, reservationColumns, submittedForms >>
  /\ UNCHANGED << reservations, nextReservationId, variant, submitted,
                  allReservations, refetching >>
  /\ UNCHANGED << gateVars, shopVars, ordersVars, eventsVars, filesVars,
                  removalVars, adminVars, timerVars, registryVars >>

\* catch and finally of handleSubmit
SubmitFails ==
  /\ formError' = Some("Erro ao processar sua reserva")
  /\ formLoading' = FALSE
  /\ submission' = NoSubmission

\* supabase.auth.getUser() resolves
SubmitGetUserResolves ==
  /\ submission.phase = "getUser"
  /\ IF authUser = None
       THEN SubmitFails
       ELSE /\ submission' = [submission EXCEPT !.phase = "insert", !.user = authUser]
            /\ UNCHANGED << formError, formLoading >>
  /\ UNCHANGED << reservations, nextReservationId, variant, submitted,
                  allReservations, refetching >>
  /\ UNCHANGED << gateVars, shopVars, moreVars >>

\* InsertedStatus that stores the row as already confirmed
InsertedStatus_Confirmed == "confirmed"

\* status: 'pending' of the inserted row
InsertedStatus == "pending"

\* the insert resolves
SubmitInsertResolves(ok) ==
  /\ submission.phase = "insert"
  /\ IF ok
       THEN /\ reservations' = reservations \cup
                 { [id |-> nextReservationId,
                    user_id |-> submission.user,
                    visitor_data |-> submission.visitorData,
                    status |-> InsertedStatus,
                    admin_notes |-> Null] }
            /\ reservationColumns' = reservationColumns @@
                 (nextReservationId :>
                    InsertedColumns(formClosure, submission.visitorData))
            /\ submittedForms' = submittedForms @@ (nextReservationId :> formClosure)
            /\ nextReservationId' = nextReservationId + 1
            /\ submitted' = TRUE
            /\ form' = EmptyForm
            /\ formLoading' = FALSE
            /\ submission' = NoSubmission
            /\ UNCHANGED formError
       ELSE /\ SubmitFails
            /\ UNCHANGED << reservations, nextReservationId, submitted, form,
                            reservationColumns, submittedForms >>
  /\ formClosure' = EmptyForm
  /\ UNCHANGED << variant, allReservations, refetching >>
  /\ UNCHANGED << gateVars, shopVars, ordersVars, eventsVars, filesVars,
                  removalVars, adminVars, timerVars, registryVars >>

\* setTimeout(() => setSubmitted(false), 5000)
SubmittedTimeout ==
  /\ submitted
  /\ submitted' = FALSE
  /\ UNCHANGED << reservations, nextReservationId, variant, formLoading,
                  formError, submission, allReservations, refetching >>
  /\ UNCHANGED << gateVars, shopVars, moreVars >>

\* ------------------------------------------- ReservationsPage, admin section

\* what a list keeps of the rows it fetched: the status by reservation id
ListOf(rows) == { [id |-> r.id, status |-> r.status] : r \in rows }

\* fetchAllReservations of admin browser s resolves
FetchAllReservationsResolves(s) ==
  /\ s \in refetching
  /\ allReservations' = [allReservations EXCEPT ![s] = ListOf(reservations)]
  /\ refetching' = refetching \ {s}
  /\ UNCHANGED << reservations, nextReservationId, variant, formLoading,
                  formError, submitted, submission >>
  /\ UNCHANGED << gateVars, shopVars, moreVars >>

\* StatusButtons that offers to confirm whatever is not confirmed
StatusButtons_AnyToConfirmed(v, status) ==
  IF status # "confirmed" THEN {"confirmed"} ELSE {"canceled"}

\* the status buttons rendered for a listed row: the newStatus values that
\* handleUpdateStatus can be called with
StatusButtons(v, status) ==
  IF v = "rich"
    THEN CASE status = "pending" -> {"confirmed", "rejected"}
           [] status = "confirmed" -> {"canceled"}
           [] OTHER -> {}
    ELSE IF status # "confirmed" THEN {"confirmed"} ELSE {"canceled"}

\* what prompt() returns: Null when dismissed, else the text typed
PromptResults == {Null, Some(""), Some("chale 2")}

\* adminNote || ''
NoteOrEmpty(adminNote) == IF adminNote = Null THEN "" ELSE adminNote[1]

\* UpdateReservation that writes the status alone in both variants
UpdateReservation_StatusOnly(id, newStatus, v, adminNote) ==
  { IF r.id = id THEN [r EXCEPT !.status = newStatus] ELSE r : r \in reservations }

\* update(patch).eq('id', id) on reservations
UpdateReservation(id, newStatus, v, adminNote) ==
  { IF r.id = id
      THEN IF v = "rich"
             THEN [r EXCEPT !.status = newStatus,
                            !.admin_notes = Some(NoteOrEmpty(adminNote))]
             ELSE [r EXCEPT !.status = newStatus]
      ELSE r : r \in reservations }

\* handleUpdateStatus(res.id, newStatus) from a button of a row listed in admin
\* browser s; the simple variant asks nothing (adminNote is not used)
HandleUpdateStatus(s, id, newStatus, adminNote, ok) ==
  /\ \E r \in allReservations[s] :
        r.id = id /\ newStatus \in StatusButtons(variant, r.status)
  /\ variant = "simple" => adminNote = Null
  /\ IF variant = "rich" /\ newStatus \in {"rejected", "confirmed"} /\ adminNote = Null
       THEN UNCHANGED << reservations, refetching >>
       ELSE IF ok
              THEN /\ reservations' = UpdateReservation(id, newStatus, variant, adminNote)
                   /\ refetching' = refetching \cup {s}
              ELSE UNCHANGED << reservations, refetching >>
  /\ UNCHANGED << nextReservationId, variant, formLoading, formError, submitted,
                  submission, allReservations >>
  /\ UNCHANGED << gateVars, shopVars, moreVars >>

\* handleDeleteReservation(res.id) from the bin button of a listed row
HandleDeleteReservation(s, id, confirmed, ok) ==
  /\ \E r \in allReservations[s] : r.id = id
  /\ IF confirmed /\ ok
       THEN /\ reservations' = { r \in reservations : r.id # id }
            /\ refetching' = refetching \cup {s}
       ELSE UNCHANGED << reservations, refetching >>
  /\ UNCHANGED << nextReservationId, variant, formLoading, formError, submitted,
                  submission, allReservations >>
  /\ UNCHANGED << gateVars, shopVars, moreVars >>

\* ------------------------------------------------------ ShopPage, the orders

OrderStatuses == {"pending", "confirmed", "completed", "rejected"}

\* what an order list keeps of the rows it fetched: the status by order id
OrderListOf(rows) == { [id |-> r.id, status |-> r.status] : r \in rows }

\* fetchMyReservations resolves: nothing is set when getUser returns no user
FetchMyReservationsResolves ==
  /\ "my" \in shopRefetching
  /\ shopRefetching' = shopRefetching \ {"my"}
  /\ myReservations' =
       IF authUser = None
         THEN myReservations
         ELSE OrderListOf({r \in productReservations : r.user_id = authUser})
  /\ UNCHANGED << shopReservations, rejectionModal >>
  /\ UNCHANGED << gateVars, shopVars, lodgingVars >>
  /\ UNCHANGED afterOrders

\* fetchReservations resolves
FetchReservationsResolves ==
  /\ "all" \in shopRefetching
  /\ shopRefetching' = shopRefetching \ {"all"}
  /\ shopReservations' = OrderListOf(productReservations)
  /\ UNCHANGED << myReservations, rejectionModal >>
  /\ UNCHANGED << gateVars, shopVars, lodgingVars >>
  /\ UNCHANGED afterOrders

\* the status buttons of a row of the admin table that call handleUpdateStatus
\* at once: Aprovar, Entregar, Reverter
OrderStatusButtons(status) ==
  (IF status = "pending" THEN {"confirmed"} ELSE {"pending"})
    \cup (IF status = "confirmed" THEN {"completed"} ELSE {})

\* the rejection modal state as useState leaves it
NoRejection == [show |-> FALSE, id |-> Null, reason |-> ""]

\* the button "Recusar" of a pending row of the admin table: it sets the
\* three states of the rejection modal and calls nothing else; no element of
\* the page reads showRejectionModal, so no dialog follows
RejectButton(id) ==
  /\ isAdmin
  /\ \E l \in shopReservations : l.id = id /\ l.status = "pending"
  /\ rejectionModal' = [show |-> TRUE, id |-> Some(id), reason |-> ""]
  /\ UNCHANGED << myReservations, shopReservations, shopRefetching >>
  /\ UNCHANGED << gateVars, shopVars, lodgingVars >>
  /\ UNCHANGED afterOrders

\* update({status}).eq('id', id) on product_reservations
UpdateOrderStatus(id, newStatus) ==
  { IF r.id = id THEN [r EXCEPT !.status = newStatus] ELSE r :
      r \in productReservations }

\* ShopPage.handleUpdateStatus(res.id, newStatus) from a button of the admin
\* table, which is rendered when isAdmin
ShopHandleUpdateStatus(id, newStatus, ok) ==
  /\ isAdmin
  /\ \E l \in shopReservations :
        l.id = id /\ newStatus \in OrderStatusButtons(l.status)
  /\ IF ok
       THEN /\ productReservations' = UpdateOrderStatus(id, newStatus)
            /\ shopRefetching' = {"my", "all"}
       ELSE UNCHANGED << productReservations, shopRefetching >>
  /\ UNCHANGED << productsTable, productReservationItems,
                  nextProductReservationId, products, cart, pickupDate,
                  isSubmitting, message, checkout >>
  /\ UNCHANGED << myReservations, shopReservations, rejectionModal >>
  /\ UNCHANGED << gateVars, lodgingVars >>
  /\ UNCHANGED afterOrders

\* the rows that show a button calling handleDeleteReservation: every row of
\* the admin table when isAdmin, and ("Cancelar Pedido") every pending row of
\* the user's own list
DeleteButtons(admin) ==
  { l.id : l \in {x \in myReservations : x.status = "pending"} }
    \cup (IF admin THEN { l.id : l \in shopReservations } ELSE {})

\* ShopPage.handleDeleteReservation(res.id); confirmed is the answer to
\* confirm(), ok the outcome of the delete
ShopHandleDeleteReservation(id, confirmed, ok) ==
  /\ id \in DeleteButtons(isAdmin)
  /\ IF confirmed /\ ok
       THEN /\ productReservations' = {r \in productReservations : r.id # id}
            /\ shopRefetching' = {"my", "all"}
       ELSE UNCHANGED << productReservations, shopRefetching >>
  /\ UNCHANGED << productsTable, productReservationItems,
                  nextProductReservationId, products, cart, pickupDate,
                  isSubmitting, message, checkout >>
  /\ UNCHANGED << myReservations, shopReservations, rejectionModal >>
  /\ UNCHANGED << gateVars, lodgingVars >>
  /\ UNCHANGED afterOrders

\* the order lists before the mount effect's fetches resolved
OrdersInit ==
  /\ myReservations = {}
  /\ shopReservations = {}
  /\ shopRefetching = {}
  /\ rejectionModal = NoRejection

\* ---------------------------------------------------- App, inactivity timer

\* the effect as it ran after the first render with this session: without a
\* session it returned before arming a timeout
TimerInit ==
  /\ timer = IF session # None THEN ResetTimer ELSE Null
  /\ sinceActivity = 0

\* one of mousedown, mousemove, keypress, scroll, touchstart reaches the
\* window: the listeners, attached while the effect of a session is in place,
\* call resetTimer
ActivityEvent ==
  /\ session # None
  /\ timer' = ResetTimer
  /\ sinceActivity' = 0
  /\ UNCHANGED << gateVars, shopVars, lodgingVars, pagesVars >>

\* ten minutes pass while a session exists; a timeout that is due runs before
\* more time passes
Tick ==
  /\ session # None
  /\ timer # Some(0)
  /\ sinceActivity < MaxIdle
  /\ timer' = IF timer = Null THEN Null ELSE Some(timer[1] - 1)
  /\ sinceActivity' = sinceActivity + 1
  /\ UNCHANGED << gateVars, shopVars, lodgingVars, pagesVars >>

\* the timeout callback: handleSignOut(), which removes the stored page and
\* calls signOut() without await (SIGNED_OUT follows when it ended the session)
TimerFires ==
  /\ timer = Some(0)
  /\ timer' = Null
  /\ lastPage' = None
  /\ UNCHANGED sinceActivity
  /\ UNCHANGED << registered, profiles, authUser, session, isApproved, isAdmin,
                  isVisitor, currentPage, loading, boot, lookups, adminProfiles >>
  /\ UNCHANGED << shopVars, lodgingVars, pagesVars >>

\* ----------------------------------------------------------------- EventsPage

\* calendar days, numbered; an event row is [id, start_date, end_date] and
\* end_date is Null when the column is null
EventDays == 1..3

EventRows ==
  { [start_date |-> sd, end_date |-> ed] :
      sd \in EventDays, ed \in {Null} \cup { Some(d) : d \in EventDays } }

\* the instants of the browser's clock: the calendar day of the user and the
\* day of the same instant in UTC, which is that day or a neighbour of it
ClockInstants ==
  { c \in [local : EventDays, utc : EventDays] :
      c.utc \in {c.local - 1, c.local, c.local + 1} }

\* new Date().toISOString().split('T')[0]: the day in UTC
ISODate(instant) == instant.utc

\* .or(`end_date.gte.${today},and(end_date.is.null,start_date.gte.${today})`)
MatchesFilter(ev, today) ==
  \/ (ev.end_date # Null /\ ev.end_date[1] >= today)
  \/ (ev.end_date = Null /\ ev.start_date >= today)

\* the sequences that list every row of rows once
Listings(rows) ==
  { seq \in [1..Cardinality(rows) -> rows] :
      \A i, j \in 1..Cardinality(rows) : i # j => seq[i] # seq[j] }

\* .order('start_date', { ascending: true }): rows of equal start_date come in
\* any order
OrderedByStartDate(rows) ==
  { seq \in Listings(rows) :
      \A i, j \in 1..Len(seq) : i < j => seq[i].start_date <= seq[j].start_date }

\* "pages" is src/pages/Events.tsx, "part_001" the variant without the upload
EventsVariants == {"pages", "part_001"}

\* the page not entered yet; mounts and rpcCalls count the runs of the mount
\* effect and the calls of supabase.rpc('delete_old_events')
NotMounted(v) ==
  [variant |-> v, mounts |-> 0, rpcCalls |-> 0, fetching |-> FALSE, rpc |-> FALSE]

\* the calls the mount effect makes to cleanupOldEvents: part_001 calls it
\* after fetchEvents, Events.tsx defines it and calls it nowhere
CleanupCallsOnMount(v) == IF v = "part_001" THEN 1 ELSE 0

\* the page is entered: the mount effect runs, nothing of it is awaited
EventsMount ==
  /\ eventsMount.mounts < MaxMounts
  /\ ~eventsMount.fetching /\ ~eventsMount.rpc
  /\ eventsMount' =
       [eventsMount EXCEPT !.mounts = @ + 1,
                           !.fetching = TRUE,
                           !.rpcCalls = @ + CleanupCallsOnMount(eventsMount.variant),
                           !.rpc = CleanupCallsOnMount(eventsMount.variant) > 0]
  /\ UNCHANGED << eventsTable, clock, events >>
  /\ UNCHANGED << gateVars, shopVars, lodgingVars, ordersVars, afterEvents >>

\* what the backend routine delete_old_events leaves: the events that are
\* not over on the backend's day
AfterDeleteOldEvents(rows, instant) ==
  { ev \in rows : MatchesFilter(ev, ISODate(instant)) }

\* supabase.rpc('delete_old_events') resolves; cleanupOldEvents looks at no
\* result and its catch only logs
CleanupResolves(ok) ==
  /\ eventsMount.rpc
  /\ eventsMount' = [eventsMount EXCEPT !.rpc = FALSE]
  /\ eventsTable' = IF ok THEN AfterDeleteOldEvents(eventsTable, clock)
                          ELSE eventsTable
  /\ UNCHANGED << clock, events >>
  /\ UNCHANGED << gateVars, shopVars, lodgingVars, ordersVars, afterEvents >>

\* fetchEvents resolves; on an error the list stays as it was
FetchEventsResolves(ok) ==
  /\ eventsMount.fetching
  /\ eventsMount' = [eventsMount EXCEPT !.fetching = FALSE]
  /\ IF ok
       THEN events' \in
              { Some(seq) : seq \in OrderedByStartDate(
                  { ev \in eventsTable : MatchesFilter(ev, ISODate(clock)) }) }
       ELSE UNCHANGED events
  /\ UNCHANGED << eventsTable, clock >>
  /\ UNCHANGED << gateVars, shopVars, lodgingVars, ordersVars, afterEvents >>

\* time passes to another instant, not an earlier one
ClockAdvances(instant) ==
  /\ instant \in ClockInstants
  /\ instant # clock
  /\ instant.local >= clock.local
  /\ instant.utc >= clock.utc
  /\ clock' = instant
  /\ UNCHANGED << eventsTable, events, eventsMount >>
  /\ UNCHANGED << gateVars, shopVars, lodgingVars, ordersVars, afterEvents >>

\* the events page before its first fetch resolved
EventsInit ==
  /\ eventsTable = {}
  /\ clock = [local |-> 1, utc |-> 1]
  /\ events = Null
  /\ eventsMount = NotMounted("pages")

\* ------------------------------------------------ DocumentsPage, GalleryPage

\* the tables that keep files; each has an object-store bucket of its name
Buckets == {"documents", "gallery"}

AlbumIds == {1, 2}

\* album_id: null
NoAlbum == 0

\* a row of documents or gallery: [id, file_path, album_id]; album_id is
\* NoAlbum for a document and for a gallery item without album.  A file_path
\* is written as the number of the upload that made it.
NoFileDelete == [phase |-> "idle", bucket |-> "documents", id |-> 0,
                 file_path |-> 0, removed |-> FALSE]

NoAlbumDelete == [phase |-> "idle", album |-> 0, paths |-> {}]

\* fetchPhotos filters by the album; the model lists the items of every album
\* fetchDocuments / fetchPhotos resolves
FetchFilesResolves(b) ==
  /\ b \in fileRefetching
  /\ fileRefetching' = fileRefetching \ {b}
  /\ fileLists' = [fileLists EXCEPT ![b] = fileRows[b]]
  /\ UNCHANGED << albums, fileRows, fileObjects, fileDelete, albumDelete >>
  /\ UNCHANGED << gateVars, shopVars, lodgingVars, ordersVars, eventsVars, afterFiles >>

\* handleDelete(doc) / handleDeletePhoto(photo) from the button of a listed
\* item, up to the first await
HandleDeleteFile(b, id, confirmed) ==
  /\ fileDelete.phase = "idle"
  /\ \E r \in fileLists[b] :
        /\ r.id = id
        /\ IF confirmed
             THEN fileDelete' = [phase |-> "remove", bucket |-> b, id |-> id,
                                 file_path |-> r.file_path, removed |-> FALSE]
             ELSE UNCHANGED fileDelete
  /\ UNCHANGED << albums, fileRows, fileObjects, fileLists, fileRefetching, albumDelete >>
  /\ UNCHANGED << gateVars, shopVars, lodgingVars, ordersVars, eventsVars, afterFiles >>

\* await supabase.storage.from(bucket).remove([file_path]) resolves; the
\* handler does not look at what it returns.  The field removed keeps whether
\* this call took the object out of the store.
FileRemoveResolves(ok) ==
  /\ fileDelete.phase = "remove"
  /\ fileObjects' = IF ok
       THEN [fileObjects EXCEPT ![fileDelete.bucket] = @ \ {fileDelete.file_path}]
       ELSE fileObjects
  /\ fileDelete' = [fileDelete EXCEPT !.phase = "delete",
       !.removed = ok /\ fileDelete.file_path \in fileObjects[fileDelete.bucket]]
  /\ UNCHANGED << albums, fileRows, fileLists, fileRefetching, albumDelete >>
  /\ UNCHANGED << gateVars, shopVars, lodgingVars, ordersVars, eventsVars, afterFiles >>

\* delete().eq('id', id) on the table resolves; on an error the catch block
\* alerts
FileDeleteResolves(ok) ==
  /\ fileDelete.phase = "delete"
  /\ IF ok
       THEN /\ fileRows' = [fileRows EXCEPT ![fileDelete.bucket] =
                               { r \in @ : r.id # fileDelete.id }]
            /\ fileRefetching' = fileRefetching \cup {fileDelete.bucket}
       ELSE UNCHANGED << fileRows, fileRefetching >>
  /\ fileDelete' = NoFileDelete
  /\ UNCHANGED << albums, fileObjects, fileLists, albumDelete >>
  /\ UNCHANGED << gateVars, shopVars, lodgingVars, ordersVars, eventsVars, afterFiles >>

\* handleDeleteAlbum(album) up to the first await
HandleDeleteAlbum(a, confirmed) ==
  /\ albumDelete.phase = "idle"
  /\ a \in albums
  /\ IF confirmed
       THEN albumDelete' = [phase |-> "select", album |-> a, paths |-> {}]
       ELSE UNCHANGED albumDelete
  /\ UNCHANGED << albums, fileRows, fileObjects, fileLists, fileRefetching, fileDelete >>
  /\ UNCHANGED << gateVars, shopVars, lodgingVars, ordersVars, eventsVars, afterFiles >>

\* select('file_path').eq('album_id', album.id) resolves; its error is not
\* read, and without data or with no rows the storage call is skipped
AlbumSelectResolves(ok) ==
  /\ albumDelete.phase = "select"
  /\ LET paths == IF ok
                    THEN { r.file_path : r \in { x \in fileRows["gallery"] :
                                                   x.album_id = albumDelete.album } }
                    ELSE {}
     IN  albumDelete' = [albumDelete EXCEPT
           !.phase = IF paths # {} THEN "remove" ELSE "delete",
           !.paths = paths]
  /\ UNCHANGED << albums, fileRows, fileObjects, fileLists, fileRefetching, fileDelete >>
  /\ UNCHANGED << gateVars, shopVars, lodgingVars, ordersVars, eventsVars, afterFiles >>

\* await supabase.storage.from('gallery').remove(paths) resolves; the handler
\* does not look at what it returns
AlbumRemoveResolves(ok) ==
  /\ albumDelete.phase = "remove"
  /\ fileObjects' = IF ok
       THEN [fileObjects EXCEPT !["gallery"] = @ \ albumDelete.paths]
       ELSE fileObjects
  /\ albumDelete' = [albumDelete EXCEPT !.phase = "delete"]
  /\ UNCHANGED << albums, fileRows, fileLists, fileRefetching, fileDelete >>
  /\ UNCHANGED << gateVars, shopVars, lodgingVars, ordersVars, eventsVars, afterFiles >>

\* what the backend does with the gallery rows of a deleted album: the page
\* issues no delete on gallery here, the foreign key album_id either cascades
\* or is set to null
GalleryAfterAlbumDelete(a, cascade) ==
  IF cascade
    THEN { r \in fileRows["gallery"] : r.album_id # a }
    ELSE { IF r.album_id = a THEN [r EXCEPT !.album_id = NoAlbum] ELSE r :
             r \in fileRows["gallery"] }

\* delete().eq('id', album.id) on albums resolves
AlbumDeleteResolves(ok, cascade) ==
  /\ albumDelete.phase = "delete"
  /\ IF ok
       THEN /\ albums' = albums \ {albumDelete.album}
            /\ fileRows' = [fileRows EXCEPT !["gallery"] =
                              GalleryAfterAlbumDelete(albumDelete.album, cascade)]
       ELSE UNCHANGED << albums, fileRows >>
  /\ albumDelete' = NoAlbumDelete
  /\ UNCHANGED << fileObjects, fileLists, fileRefetching, fileDelete >>
  /\ UNCHANGED << gateVars, shopVars, lodgingVars, ordersVars, eventsVars, afterFiles >>

\* no album, no file, nothing in flight
FilesInit ==
  /\ albums = {}
  /\ fileRows = [b \in Buckets |-> {}]
  /\ fileObjects = [b \in Buckets |-> {}]
  /\ fileLists = [b \in Buckets |-> {}]
  /\ fileRefetching = {}
  /\ fileDelete = NoFileDelete
  /\ albumDelete = NoAlbumDelete

\* -------------------------------------------- ShopPage, removal of one item
\* The page that removes one item of a committed order is not among the
\* sources; these definitions follow the specification of the portal: the
\* item is removed, then total_price is recomputed by subtracting the item's
\* contribution, not below zero, and a removal reason is appended to
\* admin_notes, as two writes without a transaction.

NoItemRemoval == [phase |-> "idle", order |-> 0, item |-> 0, total |-> 0]

\* quantity x unit_price of an item row
Contribution(row) == row.quantity * row.unit_price

\* TotalAfterRemoval that does not stop at zero
TotalAfterRemoval_Unclamped(old, row) == old - Contribution(row)

\* the recomputed total_price
TotalAfterRemoval(old, row) == Max(0, old - Contribution(row))

\* the admin removes the item at position i of the item rows; the handler
\* keeps the order's total_price as displayed
HandleRemoveItem(i) ==
  /\ isAdmin
  /\ itemRemoval.phase = "idle"
  /\ i \in 1..Len(productReservationItems)
  /\ \E r \in productReservations :
        /\ r.id = productReservationItems[i].reservation_id
        /\ itemRemoval' = [phase |-> "delete", order |-> r.id, item |-> i,
                           total |-> r.total_price]
  /\ UNCHANGED orderNotes
  /\ UNCHANGED << gateVars, shopVars, lodgingVars, ordersVars, eventsVars,
                  filesVars, afterRemoval >>

\* the delete of the item row resolves
RemoveItemDeleteResolves(ok) ==
  /\ itemRemoval.phase = "delete"
  /\ IF ok
       THEN /\ productReservationItems' =
                 [j \in 1..(Len(productReservationItems) - 1) |->
                    IF j < itemRemoval.item
                      THEN productReservationItems[j]
                      ELSE productReservationItems[j + 1]]
            /\ itemRemoval' = [itemRemoval EXCEPT !.phase = "total",
                 !.item = productReservationItems[itemRemoval.item]]
       ELSE /\ itemRemoval' = NoItemRemoval
            /\ UNCHANGED productReservationItems
  /\ UNCHANGED << productsTable, productReservations, nextProductReservationId,
                  products, cart, pickupDate, isSubmitting, message, checkout >>
  /\ UNCHANGED orderNotes
  /\ UNCHANGED << gateVars, lodgingVars, ordersVars, eventsVars, filesVars,
                  afterRemoval >>

\* the update of total_price and admin_notes of the order resolves
RemoveItemTotalResolves(ok) ==
  /\ itemRemoval.phase = "total"
  /\ IF ok
       THEN /\ productReservations' =
                 { IF r.id = itemRemoval.order
                     THEN [r EXCEPT !.total_price =
                             TotalAfterRemoval(itemRemoval.total, itemRemoval.item)]
                     ELSE r : r \in productReservations }
            /\ orderNotes' = [orderNotes EXCEPT ![itemRemoval.order] =
                                Append(@, itemRemoval.item.product_id)]
       ELSE UNCHANGED << productReservations, orderNotes >>
  /\ itemRemoval' = NoItemRemoval
  /\ UNCHANGED << productsTable, productReservationItems, nextProductReservationId,
                  products, cart, pickupDate, isSubmitting, message, checkout >>
  /\ UNCHANGED << gateVars, lodgingVars, ordersVars, eventsVars, filesVars,
                  afterRemoval >>

\* no removal running, no removal noted
RemovalInit ==
  /\ itemRemoval = NoItemRemoval
  /\ orderNotes = [id \in 1..MaxProductReservations |-> << >>]

\* --------------------------------------------------------------- VisitorsPage

\* what \s matches
Whitespace == {" ", "\n"}

RECURSIVE TrimStart(_)
\* the text without its leading whitespace
TrimStart(text) ==
  IF text # << >> /\ Head(text) \in Whitespace THEN TrimStart(Tail(text)) ELSE text

RECURSIVE TrimEnd(_)
\* the text without its trailing whitespace
TrimEnd(text) ==
  IF text # << >> /\ text[Len(text)] \in Whitespace
    THEN TrimEnd(SubSeq(text, 1, Len(text) - 1))
    ELSE text

\* String.prototype.trim
Trim(text) == TrimEnd(TrimStart(text))

RECURSIVE UpToNewline(_)
\* what (.*) takes: everything before the next line break
UpToNewline(text) ==
  IF text = << >> \/ Head(text) = "\n"
    THEN << >>
    ELSE << Head(text) >> \o UpToNewline(Tail(text))

RECURSIVE MatchAfterLabel(_, _)
\* notes.match(/LABEL:\s*(.*)/i): Null without a match, else Some(group 1) of
\* the first occurrence of the label; \s* also takes line breaks
MatchAfterLabel(text, labels) ==
  IF text = << >> THEN Null
  ELSE IF Head(text) \in labels
         THEN Some(UpToNewline(TrimStart(Tail(text))))
         ELSE MatchAfterLabel(Tail(text), labels)

\* the spellings /CPF:/i matches
CpfLabels == {"CPF:", "cpf:"}

\* the spellings /Telefone:/i matches
PhoneLabels == {"Telefone:", "telefone:"}

\* the em dash shown for a missing value
Placeholder == << "-" >>

NoVisitorsFetch == [phase |-> "idle", profiles |-> {}]

\* .from('profiles').select('*').eq('role', 'visitor')
VisitorProfiles == {u \in Users : profiles[u].exists /\ profiles[u].role = "visitor"}

\* (reservations || []).filter(r => r.user_id === profile.id)
MyRes(rows, u) == {r \in rows : r.user_id = u}

\* myRes[0] of the rows ordered by check_in descending: Null without rows, else
\* Some(row) for a row of the latest check_in (the order among equal check_in
\* dates is the backend's)
LastRes(rows, u) ==
  IF MyRes(rows, u) = {}
    THEN {Null}
    ELSE { Some(r) : r \in { q \in MyRes(rows, u) :
             \A o \in MyRes(rows, u) :
               reservationColumns[o.id].check_in <= reservationColumns[q.id].check_in } }

\* a || '—'
OrPlaceholder(value) == IF value = Null \/ value = Some(<< >>) THEN Placeholder ELSE value[1]

\* the visitorData built for one profile
Enriched(u, lastRes) ==
  IF lastRes = Null
    THEN [id |-> u, cpf |-> Placeholder, phone |-> Placeholder,
          host_name |-> Placeholder]
    ELSE LET notes == reservationColumns[lastRes[1].id].notes
             cpfMatch == MatchAfterLabel(notes, CpfLabels)
             phoneMatch == MatchAfterLabel(notes, PhoneLabels)
         IN [id |-> u,
             cpf |-> IF cpfMatch # Null THEN Trim(cpfMatch[1]) ELSE Placeholder,
             phone |-> IF phoneMatch # Null THEN Trim(phoneMatch[1]) ELSE Placeholder,
             host_name |-> OrPlaceholder(reservationColumns[lastRes[1].id].name)]

\* the lists (profiles || []).map(...) can produce
EnrichedVisitors(profs, rows) ==
  { { Enriched(u, pick[u]) : u \in profs } :
      pick \in { f \in [profs -> UNION { LastRes(rows, u) : u \in profs }] :
                   \A u \in profs : f[u] \in LastRes(rows, u) } }

\* fetchVisitors up to its first await (the mount effect)
FetchVisitors ==
  /\ visitorsFetch.phase = "idle"
  /\ visitorsFetch' = [NoVisitorsFetch EXCEPT !.phase = "profiles"]
  /\ UNCHANGED << visitors, pageAdmin >>
  /\ UNCHANGED << gateVars, shopVars, lodgingVars, ordersVars, eventsVars,
                  filesVars, removalVars, adminVars, timerVars, formVars >>

\* the profiles query resolves
FetchVisitorsProfilesResolves(ok) ==
  /\ visitorsFetch.phase = "profiles"
  /\ visitorsFetch' = IF ok
                        THEN [phase |-> "reservations", profiles |-> VisitorProfiles]
                        ELSE NoVisitorsFetch
  /\ UNCHANGED << visitors, pageAdmin >>
  /\ UNCHANGED << gateVars, shopVars, lodgingVars, ordersVars, eventsVars,
                  filesVars, removalVars, adminVars, timerVars, formVars >>

\* the reservations query resolves
FetchVisitorsReservationsResolves(ok) ==
  /\ visitorsFetch.phase = "reservations"
  /\ IF ok
       THEN visitors' \in EnrichedVisitors(visitorsFetch.profiles, reservations)
       ELSE UNCHANGED visitors
  /\ visitorsFetch' = NoVisitorsFetch
  /\ UNCHANGED pageAdmin
  /\ UNCHANGED << gateVars, shopVars, lodgingVars, ordersVars, eventsVars,
                  filesVars, removalVars, adminVars, timerVars, formVars >>

\* ------------------------------------- FinancePage, DocumentsPage, GalleryPage

\* the pages that keep an isAdmin state of their own, set by their checkAdmin
AdminCheckedPages == {"finance", "documents", "gallery"}

\* useState(false), the mount effect not yet run
NotChecked == [isAdmin |-> FALSE, phase |-> "unmounted", user |-> None]

\* data?.role === 'admin' on the result of .single(): data is null when the
\* query failed or matched no row
RoleIsAdmin(data) == Len(data) > 0 /\ data[1].role = "admin"

\* the mount effect of the page shown calls checkAdmin, up to getUser()
CheckAdmin(p) ==
  /\ Render = "portal"
  /\ currentPage = p
  /\ RenderContent(currentPage, isAdmin, isVisitor) # "HomePage"
  /\ pageAdmin[p].phase = "unmounted"
  /\ pageAdmin' = [pageAdmin EXCEPT ![p].phase = "getUser"]
  /\ UNCHANGED << visitors, visitorsFetch >>
  /\ UNCHANGED << gateVars, shopVars, lodgingVars, ordersVars, eventsVars,
                  filesVars, removalVars, adminVars, timerVars, formVars >>

\* getUser() of checkAdmin resolves: without a user nothing more is done
CheckAdminGetUserResolves(p) ==
  /\ pageAdmin[p].phase = "getUser"
  /\ pageAdmin' = [pageAdmin EXCEPT
                     ![p].phase = IF authUser = None THEN "done" ELSE "query",
                     ![p].user = authUser]
  /\ UNCHANGED << visitors, visitorsFetch >>
  /\ UNCHANGED << gateVars, shopVars, lodgingVars, ordersVars, eventsVars,
                  filesVars, removalVars, adminVars, timerVars, formVars >>

\* the role query of checkAdmin resolves and setIsAdmin is called
CheckAdminQueryResolves(p, ok) ==
  /\ pageAdmin[p].phase = "query"
  /\ pageAdmin' = [pageAdmin EXCEPT
                     ![p].phase = "done",
                     ![p].isAdmin =
                        RoleIsAdmin(IF ok THEN SelectProfile(pageAdmin[p].user)
                                          ELSE << >>)]
  /\ UNCHANGED << visitors, visitorsFetch >>
  /\ UNCHANGED << gateVars, shopVars, lodgingVars, ordersVars, eventsVars,
                  filesVars, removalVars, adminVars, timerVars, formVars >>

\* useState<VisitorProfile[]>([]), no fetch started; no page checked
RegistryInit ==
  /\ visitors = {}
  /\ visitorsFetch = NoVisitorsFetch
  /\ pageAdmin = [p \in AdminCheckedPages |-> NotChecked]

\* ----------------------------------------------------------- initial states

\* the pages other than the gate, the cart and the lodging form, as mounted
MoreInit ==
  /\ OrdersInit
  /\ EventsInit
  /\ FilesInit
  /\ RemovalInit
  /\ AdminInit
  /\ TimerInit
  /\ RegistryInit

\* the shop before the page is opened: the catalog, no orders, an empty page
ShopInit ==
  /\ productsTable = Catalog
  /\ productReservations = {}
  /\ productReservationItems = << >>
  /\ nextProductReservationId = 1
  /\ products = NoProducts
  /\ cart = << >>
  /\ pickupDate = ""
  /\ isSubmitting = FALSE
  /\ message = Null
  /\ checkout = NoCheckout

\* the reservations page as mounted, no handler in flight
LodgingPageInit ==
  /\ nextReservationId = Cardinality(reservations) + 1
  /\ formLoading = FALSE
  /\ formError = Null
  /\ submitted = FALSE
  /\ submission = NoSubmission
  /\ allReservations = [s \in AdminSessions |-> {}]
  /\ form = EmptyForm
  /\ formClosure = EmptyForm
  /\ reservationColumns =
       [i \in {r.id : r \in reservations} |->
          InsertedColumns(StoredForm,
                          \E r \in reservations : r.id = i /\ r.visitor_data)]
  /\ submittedForms = [i \in {r.id : r \in reservations} |-> StoredForm]

LodgingInit ==
  /\ reservations = {}
  /\ variant = "simple"
  /\ refetching = {}
  /\ LodgingPageInit

\* the App of an approved user u who is signed in and has page open
SignedInOn(page, u, admin, visitor) ==
  /\ registered = Users
  /\ profiles = [x \in Users |->
       IF x = u THEN Row(TRUE, IF admin THEN "admin"
                               ELSE IF visitor THEN "visitor" ELSE "member")
                ELSE NoRow]
  /\ authUser = u
  /\ session = u
  /\ isApproved = Some(TRUE)
  /\ isAdmin = admin
  /\ isVisitor = visitor
  /\ lastPage = page
  /\ currentPage = page
  /\ loading = FALSE
  /\ boot = "mounted"
  /\ lookups = EmptyBag
  /\ adminProfiles = [x \in Users |-> NoRow]

\* ----------------------------------------------------- access specification

\* The gate of one browser that stays loaded, the sign-ups and the
\* access-control page of an administrator, who changes the profiles.  The
\* super administrator is registered from the start; the others sign up.
\* handleSignOut is left to SpecApp: the session ends here by SignedOut.
\* A declined confirmation or an update that returns an error changes none of
\* the variables (the alert is not part of the state): those runs of the
\* handlers are stuttering steps, which [][NextAccess]_vars admits already.

InitAccess ==
  /\ registered = {SuperAdminEmail}
  /\ profiles = [u \in Users |->
                   IF u = SuperAdminEmail THEN Row(TRUE, "admin") ELSE NoRow]
  /\ authUser = None
  /\ session = None
  /\ isApproved = Null
  /\ isAdmin = FALSE
  /\ isVisitor = FALSE
  /\ lastPage = None
  /\ currentPage = "home"
  /\ loading = TRUE
  /\ boot = "getSession"
  /\ lookups = EmptyBag
  /\ adminProfiles = [u \in Users |-> NoRow]
  /\ ShopInit
  /\ MoreInit
  /\ LodgingInit

NextAccess ==
  \/ GetSessionThen
  \/ \E l \in BagToSet(lookups), ok \in BOOLEAN : LookupQueryResolves(l, ok)
  \/ \E l \in BagToSet(lookups) : LookupGetUserResolves(l)
  \/ \E u \in Users, mode \in {"register", "visitor"} : SignUp(u, mode)
  \/ \E u \in Users : SignIn(u)
  \/ TokenRefreshed
  \/ SignedOut
  \/ FetchProfiles
  \/ \E id \in Users : HandleToggleApproval(id)
  \/ \E id \in Users : HandleDeleteUser(id)
  \/ AdminConfirmReturns(TRUE)
  \/ AdminWriteResolves(TRUE)

SpecAccess == InitAccess /\ [][NextAccess]_vars

\* -------------------------------------------------------- app specification

\* the profiles a running installation can hold: any row per account
ProfileTables ==
  [Users -> {NoRow} \cup {Row(a, r) : a \in BOOLEAN, r \in Roles}]

\* The App with its menu, reload and stored page, over a profiles table that
\* stays as the sign-ups and the administration left it.
InitApp ==
  /\ registered = Users
  /\ profiles \in ProfileTables
  /\ authUser = None
  /\ session = None
  /\ isApproved = Null
  /\ isAdmin = FALSE
  /\ isVisitor = FALSE
  /\ lastPage \in PageEnum \cup {None}
  /\ currentPage = IF lastPage # None THEN lastPage ELSE "home"
  /\ loading = TRUE
  /\ boot = "getSession"
  /\ lookups = EmptyBag
  /\ adminProfiles = [u \in Users |-> NoRow]
  /\ ShopInit
  /\ MoreInit
  /\ LodgingInit

NextApp ==
  \/ GetSessionThen
  \/ \E l \in BagToSet(lookups), ok \in BOOLEAN : LookupQueryResolves(l, ok)
  \/ \E l \in BagToSet(lookups) : LookupGetUserResolves(l)
  \/ \E u \in Users : SignIn(u)
  \/ TokenRefreshed
  \/ SignedOut
  \/ HandleSignOut
  \/ \E p \in PageEnum : Navigate(p)
  \/ Reload

SpecApp == InitApp /\ [][NextApp]_vars

\* ------------------------------------------------------- shop specification

\* The shop page of a signed-in member: cart, pickup date and checkout.
InitShop ==
  /\ SignedInOn("shop", "a@b.com", FALSE, FALSE)
  /\ ShopInit
  /\ MoreInit
  /\ LodgingInit

NextShop ==
  \/ FetchProducts
  \/ \E productId \in ProductIds : AddToCart(productId)
  \/ \E productId \in ProductIds : RemoveFromCart(productId)
  \/ \E productId \in ProductIds, delta \in {-1, 1} : UpdateQuantity(productId, delta)
  \/ \E value \in PickupDates \cup {""} : SetPickupDate(value)
  \/ HandleCheckout
  \/ CheckoutGetUserResolves
  \/ \E ok \in BOOLEAN : CheckoutHeaderResolves(ok)
  \/ \E ok \in BOOLEAN : CheckoutItemsResolves(ok)
  \/ SessionInvalidated

SpecShop == InitShop /\ [][NextShop]_vars

\* ---------------------------------------------------- lodging specification

\* The reservation form of a signed-in member or visitor, in either variant.
InitLodging ==
  /\ \E u \in Users, visitor \in BOOLEAN :
       SignedInOn("reservations", u, FALSE, visitor)
  /\ ShopInit
  /\ MoreInit
  /\ reservations = {}
  /\ variant \in Variants
  /\ refetching = {}
  /\ LodgingPageInit

NextLodging ==
  \/ \E v \in HostNames : SetName(v)
  \/ \E v \in CpfTexts : SetVisitorCpf(v)
  \/ \E v \in PhoneTexts : SetVisitorPhone(v)
  \/ \E d \in CheckInDays : SetCheckIn(d)
  \/ \E v \in FreeTexts : SetNotes(v)
  \/ HandleSubmit
  \/ SubmitGetUserResolves
  \/ \E ok \in BOOLEAN : SubmitInsertResolves(ok)
  \/ SubmittedTimeout
  \/ SessionInvalidated

SpecLodging == InitLodging /\ [][NextLodging]_vars

\* the guests a name is typed for and their ages
GuestNames == {"Ana"}

GuestAges == {"7"}

\* The reservation form of a signed-in member who has reservations stored
\* and room for one more: the number of guests and the guest details are
\* edited and the form is submitted.
InitGuests ==
  /\ SignedInOn("reservations", "a@b.com", FALSE, FALSE)
  /\ ShopInit
  /\ MoreInit
  /\ reservations =
       { [id |-> i, user_id |-> "a@b.com", visitor_data |-> FALSE,
          status |-> InsertedStatus, admin_notes |-> Null] :
         i \in 1..(MaxSubmissions - 1) }
  /\ variant \in Variants
  /\ refetching = {}
  /\ LodgingPageInit

NextGuests ==
  \/ \E v \in HostNames : SetName(v)
  \/ \E d \in {1} : SetCheckIn(d)
  \/ \E text \in GuestInputs : HandleNumGuestsChange(text)
  \/ \E index \in 1..3, value \in GuestNames :
       HandleGuestDetailChange(index, "name", value)
  \/ \E value \in GuestAges : HandleGuestDetailChange(1, "age", value)
  \/ HandleSubmit
  \/ SubmitGetUserResolves
  \/ \E ok \in BOOLEAN : SubmitInsertResolves(ok)

SpecGuests == InitGuests /\ [][NextGuests]_vars

\* ---------------------------------------------- lodging admin specification

\* the reservations as the submissions left them: all pending, no admin notes
SubmittedReservations ==
  { [id |-> i, user_id |-> "a@b.com", visitor_data |-> FALSE,
     status |-> InsertedStatus, admin_notes |-> Null] : i \in 1..MaxReservations }

\* Two administrators with the reservations page open, each with its own
\* fetched list, acting on the stored reservations.
InitLodgingAdmin ==
  /\ SignedInOn("reservations", SuperAdminEmail, TRUE, FALSE)
  /\ ShopInit
  /\ MoreInit
  /\ reservations = SubmittedReservations
  /\ variant \in Variants
  /\ refetching = AdminSessions
  /\ LodgingPageInit

NextLodgingAdmin ==
  \/ \E s \in AdminSessions : FetchAllReservationsResolves(s)
  \/ \E s \in AdminSessions, id \in 1..MaxReservations, newStatus \in Statuses,
        adminNote \in PromptResults, ok \in BOOLEAN :
       HandleUpdateStatus(s, id, newStatus, adminNote, ok)
  \/ \E s \in AdminSessions, id \in 1..MaxReservations, confirmed \in BOOLEAN,
        ok \in BOOLEAN :
       HandleDeleteReservation(s, id, confirmed, ok)

SpecLodgingAdmin == InitLodgingAdmin /\ [][NextLodgingAdmin]_vars

\* ------------------------------------------------ shop orders specification

\* the orders as checkouts of one unit of product 1 left them, by owner
CommittedOrders(owner) ==
  { [id |-> i, user_id |-> owner[i], pickup_date |-> "2026-12-24",
     total_price |-> Catalog[1], status |-> "pending"] :
      i \in 1..MaxProductReservations }

CommittedItems ==
  [i \in 1..MaxProductReservations |->
     [reservation_id |-> i, product_id |-> 1, quantity |-> 1,
      unit_price |-> Catalog[1]]]

\* The shop page of a member or of an administrator, over stored orders: the
\* two order lists, the status buttons and the delete buttons.
InitShopOrders ==
  /\ \E admin \in BOOLEAN : SignedInOn("shop", "a@b.com", admin, FALSE)
  /\ productsTable = Catalog
  /\ \E owner \in [1..MaxProductReservations -> Users] :
        productReservations = CommittedOrders(owner)
  /\ productReservationItems = CommittedItems
  /\ nextProductReservationId = MaxProductReservations + 1
  /\ products = NoProducts
  /\ cart = << >>
  /\ pickupDate = ""
  /\ isSubmitting = FALSE
  /\ message = Null
  /\ checkout = NoCheckout
  /\ LodgingInit
  /\ myReservations = {}
  /\ shopReservations = {}
  /\ shopRefetching = IF isAdmin THEN {"my", "all"} ELSE {"my"}
  /\ rejectionModal = NoRejection
  /\ EventsInit
  /\ FilesInit
  /\ RemovalInit
  /\ AdminInit
  /\ TimerInit
  /\ RegistryInit

NextShopOrders ==
  \/ FetchMyReservationsResolves
  \/ FetchReservationsResolves
  \/ \E id \in 1..MaxProductReservations, newStatus \in OrderStatuses,
        ok \in BOOLEAN :
       ShopHandleUpdateStatus(id, newStatus, ok)
  \/ \E id \in 1..MaxProductReservations, confirmed \in BOOLEAN, ok \in BOOLEAN :
       ShopHandleDeleteReservation(id, confirmed, ok)
  \/ \E id \in 1..MaxProductReservations : RejectButton(id)
  \/ SessionInvalidated

SpecShopOrders == InitShopOrders /\ [][NextShopOrders]_vars

\* the same with every step that can be taken taken at some time: a handler
\* that was started runs on, a fetch in flight resolves
SpecShopOrdersFair == SpecShopOrders /\ WF_vars(NextShopOrders)

\* --------------------------------------------------- events specification

\* the stored events: up to MaxEvents rows, ids in order of insertion
EventTables ==
  UNION { { { [id |-> i, start_date |-> rows[i].start_date,
               end_date |-> rows[i].end_date] : i \in 1..n } :
            rows \in [1..n -> EventRows] } : n \in 0..MaxEvents }

\* The events page fetching its list from any stored events, at any instant.
InitEvents ==
  /\ SignedInOn("events", "a@b.com", FALSE, FALSE)
  /\ ShopInit
  /\ LodgingInit
  /\ OrdersInit
  /\ FilesInit
  /\ RemovalInit
  /\ AdminInit
  /\ TimerInit
  /\ RegistryInit
  /\ eventsTable \in EventTables
  /\ clock \in ClockInstants
  /\ events = Null
  /\ \E v \in EventsVariants : eventsMount = NotMounted(v)

NextEvents ==
  \/ EventsMount
  \/ \E ok \in BOOLEAN : CleanupResolves(ok)
  \/ \E ok \in BOOLEAN : FetchEventsResolves(ok)
  \/ \E instant \in ClockInstants : ClockAdvances(instant)

SpecEvents == InitEvents /\ [][NextEvents]_vars

\* ---------------------------------------- documents and gallery specification

\* the uploaded files of a bucket: rows 1..n, each with its object
UploadedRows(n, albumOf) ==
  { [id |-> i, file_path |-> i, album_id |-> albumOf[i]] : i \in 1..n }

\* An administrator on the documents and gallery pages, after uploads that all
\* succeeded: every row has its object, the lists are fetched.
InitFiles ==
  /\ SignedInOn("gallery", SuperAdminEmail, TRUE, FALSE)
  /\ ShopInit
  /\ LodgingInit
  /\ OrdersInit
  /\ EventsInit
  /\ RemovalInit
  /\ AdminInit
  /\ TimerInit
  /\ RegistryInit
  /\ albums = AlbumIds
  /\ \E nd \in 0..MaxDocuments, np \in 0..MaxPhotos :
       \E albumOf \in [1..np -> AlbumIds] :
          /\ fileRows = [b \in Buckets |->
                           IF b = "documents"
                             THEN UploadedRows(nd, [i \in 1..nd |-> NoAlbum])
                             ELSE UploadedRows(np, albumOf)]
          /\ fileObjects = [b \in Buckets |->
                              IF b = "documents" THEN 1..nd ELSE 1..np]
  /\ fileLists = fileRows
  /\ fileRefetching = {}
  /\ fileDelete = NoFileDelete
  /\ albumDelete = NoAlbumDelete

NextFiles ==
  \/ \E b \in Buckets : FetchFilesResolves(b)
  \/ \E b \in Buckets, id \in 1..(MaxDocuments + MaxPhotos) :
        HandleDeleteFile(b, id, TRUE)
  \/ \E ok \in BOOLEAN : FileRemoveResolves(ok)
  \/ \E ok \in BOOLEAN : FileDeleteResolves(ok)
  \/ \E a \in AlbumIds : HandleDeleteAlbum(a, TRUE)
  \/ \E ok \in BOOLEAN : AlbumSelectResolves(ok)
  \/ \E ok \in BOOLEAN : AlbumRemoveResolves(ok)
  \/ \E ok, cascade \in BOOLEAN : AlbumDeleteResolves(ok, cascade)

SpecFiles == InitFiles /\ [][NextFiles]_vars

\* ------------------------------------------- removal of items specification

\* the item rows of a committed order of both products
TwoItems(q1, q2) ==
  << [reservation_id |-> 1, product_id |-> 1, quantity |-> q1,
      unit_price |-> Catalog[1]],
     [reservation_id |-> 1, product_id |-> 2, quantity |-> q2,
      unit_price |-> Catalog[2]] >>

\* An administrator over one committed order of two items.  The stored
\* total_price is the sum over the items, or less than it: nothing ties the
\* column to the item rows.
InitOrderItems ==
  /\ SignedInOn("shop", SuperAdminEmail, TRUE, FALSE)
  /\ productsTable = Catalog
  /\ \E q1, q2 \in 1..MaxQuantity :
        /\ productReservationItems = TwoItems(q1, q2)
        /\ \E total \in {0, Catalog[2], q1 * Catalog[1] + q2 * Catalog[2]} :
              productReservations =
                { [id |-> 1, user_id |-> "a@b.com", pickup_date |-> "2026-12-24",
                   total_price |-> total, status |-> "pending"] }
  /\ nextProductReservationId = 2
  /\ products = NoProducts
  /\ cart = << >>
  /\ pickupDate = ""
  /\ isSubmitting = FALSE
  /\ message = Null
  /\ checkout = NoCheckout
  /\ LodgingInit
  /\ OrdersInit
  /\ EventsInit
  /\ FilesInit
  /\ RemovalInit
  /\ AdminInit
  /\ TimerInit
  /\ RegistryInit

NextOrderItems ==
  \/ \E i \in 1..2 : HandleRemoveItem(i)
  \/ \E ok \in BOOLEAN : RemoveItemDeleteResolves(ok)
  \/ \E ok \in BOOLEAN : RemoveItemTotalResolves(ok)

SpecOrderItems == InitOrderItems /\ [][NextOrderItems]_vars

\* --------------------------------------------- access-control specification

\* The access-control page of the super administrator over any profiles
\* table: the three handlers with every answer to confirm() and every outcome
\* of the write, while others sign up.
InitAdminUsers ==
  /\ registered \in SUBSET Users
  /\ profiles \in ProfileTables
  /\ \A u \in Users : profiles[u].exists => u \in registered
  /\ authUser = SuperAdminEmail
  /\ session = SuperAdminEmail
  /\ isApproved = Some(TRUE)
  /\ isAdmin = TRUE
  /\ isVisitor = FALSE
  /\ lastPage = "admin_users"
  /\ currentPage = "admin_users"
  /\ loading = FALSE
  /\ boot = "mounted"
  /\ lookups = EmptyBag
  /\ adminProfiles = [u \in Users |-> NoRow]
  /\ ShopInit
  /\ LodgingInit
  /\ MoreInit

NextAdminUsers ==
  \/ FetchProfiles
  \/ \E u \in Users, mode \in {"register", "visitor"} : SignUp(u, mode)
  \/ \E id \in Users : HandleToggleApproval(id)
  \/ \E id \in Users : HandleToggleRole(id)
  \/ \E id \in Users : HandleDeleteUser(id)
  \/ \E accepted \in BOOLEAN : AdminConfirmReturns(accepted)
  \/ \E ok \in BOOLEAN : AdminWriteResolves(ok)
  \/ AdminAlertDismissed

SpecAdminUsers == InitAdminUsers /\ [][NextAdminUsers]_vars

\* The access-control page open in two administrator sessions: the handlers
\* of this session as above, and approvals toggled from the other session.
NextAdminSessions ==
  \/ NextAdminUsers
  \/ \E id \in Users : OtherSessionTogglesApproval(id)

SpecAdminSessions == InitAdminUsers /\ [][NextAdminSessions]_vars

\* ------------------------------------------------- delete-user specification

\* Both accounts registered, each with an approved profile row, and the
\* lodging reservations and shop orders of one of them stored; nobody is
\* signed in.
\* The administrator deletes profiles on the access-control page while the
\* accounts sign in and out.
InitDeleteUser ==
  /\ registered = Users
  /\ profiles \in { t \in ProfileTables :
                       \A u \in Users : t[u].exists /\ t[u].approved }
  /\ authUser = None
  /\ session = None
  /\ isApproved = Null
  /\ isAdmin = FALSE
  /\ isVisitor = FALSE
  /\ lastPage = None
  /\ currentPage = "home"
  /\ loading = FALSE
  /\ boot = "mounted"
  /\ lookups = EmptyBag
  /\ adminProfiles = profiles
  /\ productsTable = Catalog
  /\ \E u \in Users :
        /\ productReservations = CommittedOrders([i \in 1..MaxProductReservations |-> u])
        /\ reservations = { [r EXCEPT !.user_id = u] : r \in SubmittedReservations }
  /\ productReservationItems = CommittedItems
  /\ nextProductReservationId = MaxProductReservations + 1
  /\ products = NoProducts
  /\ cart = << >>
  /\ pickupDate = ""
  /\ isSubmitting = FALSE
  /\ message = Null
  /\ checkout = NoCheckout
  /\ variant = "rich"
  /\ refetching = {}
  /\ LodgingPageInit
  /\ MoreInit

NextDeleteUser ==
  \/ \E l \in BagToSet(lookups), ok \in BOOLEAN : LookupQueryResolves(l, ok)
  \/ \E l \in BagToSet(lookups) : LookupGetUserResolves(l)
  \/ \E u \in Users : SignIn(u)
  \/ SignedOut
  \/ \E id \in Users : HandleDeleteUser(id)
  \/ \E accepted \in BOOLEAN : AdminConfirmReturns(accepted)
  \/ \E ok \in BOOLEAN : AdminWriteResolves(ok)
  \/ AdminAlertDismissed

SpecDeleteUser == InitDeleteUser /\ [][NextDeleteUser]_vars

\* ------------------------------------------------------ timer specification

\* A signed-in member with the portal open: time passes, activity events
\* arrive, the auth client refreshes the token, the session ends and begins.
InitTimer ==
  /\ SignedInOn("home", "a@b.com", FALSE, FALSE)
  /\ boot = "mounted"
  /\ lookups = EmptyBag
  /\ adminProfiles = [u \in Users |-> NoRow]
  /\ ShopInit
  /\ MoreInit
  /\ LodgingInit

NextTimer ==
  \/ ActivityEvent
  \/ Tick
  \/ TimerFires
  \/ TokenRefreshed
  \/ \E l \in BagToSet(lookups), ok \in BOOLEAN : LookupQueryResolves(l, ok)
  \/ \E l \in BagToSet(lookups) : LookupGetUserResolves(l)
  \/ SignedOut
  \/ \E u \in Users : SignIn(u)

SpecTimer == InitTimer /\ [][NextTimer]_vars

\* ------------------------------------------- visitor registry specification

\* A visitor fills and submits the reservation form of the rich variant while
\* an administrator opens the visitor registry.
InitVisitors ==
  /\ SignedInOn("reservations", "a@b.com", FALSE, TRUE)
  /\ boot = "mounted"
  /\ lookups = EmptyBag
  /\ adminProfiles = [u \in Users |-> NoRow]
  /\ ShopInit
  /\ MoreInit
  /\ reservations = {}
  /\ variant = "rich"
  /\ refetching = {}
  /\ LodgingPageInit

NextVisitors ==
  \/ \E v \in HostNames : SetName(v)
  \/ \E v \in CpfTexts : SetVisitorCpf(v)
  \/ \E v \in PhoneTexts : SetVisitorPhone(v)
  \/ \E d \in CheckInDays : SetCheckIn(d)
  \/ \E v \in FreeTexts : SetNotes(v)
  \/ HandleSubmit
  \/ SubmitGetUserResolves
  \/ \E ok \in BOOLEAN : SubmitInsertResolves(ok)
  \/ FetchVisitors
  \/ \E ok \in BOOLEAN : FetchVisitorsProfilesResolves(ok)
  \/ \E ok \in BOOLEAN : FetchVisitorsReservationsResolves(ok)

SpecVisitors == InitVisitors /\ [][NextVisitors]_vars

\* ------------------------------------------------ page checks specification

\* A user whose lookup completed from the stored profile and who is shown
\* the portal opens the finance, documents or gallery page.
InitPageChecks ==
  /\ registered = Users
  /\ profiles \in ProfileTables
  /\ \E u \in Users :
        /\ authUser = u
        /\ session = u
        /\ isApproved = FlagsFromData(SelectProfile(u), u).isApproved
        /\ isAdmin = FlagsFromData(SelectProfile(u), u).isAdmin
        /\ isVisitor = FlagsFromData(SelectProfile(u), u).isVisitor
  /\ currentPage \in AdminCheckedPages
  /\ lastPage = currentPage
  /\ loading = FALSE
  /\ boot = "mounted"
  /\ lookups = EmptyBag
  /\ adminProfiles = [u \in Users |-> NoRow]
  /\ Render = "portal"
  /\ ShopInit
  /\ LodgingInit
  /\ MoreInit

NextPageChecks ==
  \/ \E p \in AdminCheckedPages : CheckAdmin(p)
  \/ \E p \in AdminCheckedPages : CheckAdminGetUserResolves(p)
  \/ \E p \in AdminCheckedPages, ok \in BOOLEAN : CheckAdminQueryResolves(p, ok)

SpecPageChecks == InitPageChecks /\ [][NextPageChecks]_vars

\* =================================================================== claims

\* C1: when the profile lookup of the signed-in user, who is not the
\* super-admin, finishes after reading either no row or a row with
\* approved = false and a role other than admin, the App renders the
\* pending-approval screen, not the portal layout.
C1_PendingAfterLookup ==
  [][\A l \in BagToSet(lookups) :
       ( /\ LookupGetUserResolves(l)
         /\ l.phase = "getUser"
         /\ session = l.userId
         /\ authUser = l.userId
         /\ ~IsSuperAdmin(l.userId)
         /\ \/ Len(l.data) = 0
            \/ (Len(l.data) > 0 /\ ~l.data[1].approved /\ l.data[1].role # "admin") )
       => Render' = "pending"]_vars

\* an unapproved member sits on the pending screen, every lookup finished
C1_Witness ==
  /\ Render = "pending"
  /\ session = "a@b.com"
  /\ lookups = EmptyBag
  /\ profiles["a@b.com"] = Row(FALSE, "member")

VisitorBlockedPages ==
  {"events", "documents", "gallery", "finance", "profile", "contact"}

\* C2: whenever isVisitor is true and the current page is Events, Documents,
\* Gallery, Finance, Profile or Contact, renderContent gives the Home view,
\* whatever the other flags are.
C2_VisitorRedirected ==
  (Render = "portal" /\ isVisitor /\ currentPage \in VisitorBlockedPages)
    => RenderContent(currentPage, isAdmin, isVisitor) = "HomePage"

\* the component that is the page itself
PageComponent(page) ==
  CASE page = "home" -> "HomePage"
    [] page = "finance" -> "FinancePage"
    [] page = "reservations" -> "ReservationsPage"
    [] page = "events" -> "EventsPage"
    [] page = "documents" -> "DocumentsPage"
    [] page = "gallery" -> "GalleryPage"
    [] page = "contact" -> "ContactPage"
    [] page = "shop" -> "ShopPage"
    [] page = "visitors" -> "VisitorsPage"
    [] page = "admin_users" -> "AdminUsersPage"
    [] OTHER -> "HomePage"

\* C3: for a visitor the menu built by Layout lists exactly Home, Reservations
\* and Shop, and each of them, once selected, renders that page.
C3_VisitorPages ==
  (Render = "portal" /\ isVisitor)
    => /\ MenuPages(isAdmin, isVisitor) = {"home", "reservations", "shop"}
       /\ currentPage \in {"home", "reservations", "shop"}
            => RenderContent(currentPage, isAdmin, isVisitor) = PageComponent(currentPage)

\* C8: when handleToggleApproval succeeds on a profile that is stored and
\* listed as pending, a fetch of that profile right after shows approved = true;
\* and when the lookup of the signed-in user finishes after reading
\* approved = true, the gate renders the portal, not the pending screen.
C8_ApprovalOpensPortal ==
  [][ /\ \A id \in Users :
           ( /\ AdminWriteResolves(TRUE)
             /\ adminOp.handler = "approval" /\ adminOp.id = id
             /\ profiles[id].exists /\ ~profiles[id].approved
             /\ ~adminOp.list[id].approved )
           => /\ Len(SelectProfile(id)') = 1
              /\ SelectProfile(id)'[1].approved = TRUE
      /\ \A l \in BagToSet(lookups) :
           ( /\ LookupGetUserResolves(l)
             /\ l.phase = "getUser"
             /\ session = l.userId
             /\ Len(l.data) > 0 /\ l.data[1].approved )
           => Render' = "portal" ]_vars

\* a member approved by the administrator is in the portal
C8_Witness ==
  /\ Render = "portal"
  /\ session = "a@b.com"
  /\ isApproved = Some(TRUE)
  /\ lookups = EmptyBag
  /\ profiles["a@b.com"] = Row(TRUE, "member")
  /\ adminProfiles["a@b.com"] = Row(TRUE, "member")

\* C9: when checkUserInfo finishes for the signed-in super-admin account,
\* isApproved and isAdmin are true whether the lookup read a row, read no row
\* or failed; for any other account a failed lookup leaves both false.
C9_SuperAdminFallback ==
  [][\A l \in BagToSet(lookups) :
       LookupGetUserResolves(l)
       => /\ IsSuperAdmin(authUser) => (isApproved' = Some(TRUE) /\ isAdmin')
          /\ (~IsSuperAdmin(authUser) /\ l.phase = "catch")
               => (isApproved' = Some(FALSE) /\ ~isAdmin')]_vars

\* the super-admin is let in although the profile row is gone
C9_Witness ==
  /\ session = SuperAdminEmail
  /\ isApproved = Some(TRUE)
  /\ isAdmin
  /\ Render = "portal"
  /\ lookups = EmptyBag
  /\ ~profiles[SuperAdminEmail].exists

\* C4: every reservation row that handleSubmit inserts, in either variant and
\* from the member or the visitor form, has status "pending" and the user_id
\* that getUser returned to that call, which is the user the backend holds
\* for the browser; when getUser returns no user the call ends with no insert.
C4_SubmittedRowsPending ==
  [][/\ \A r \in reservations' \ reservations :
          /\ r.status = "pending"
          /\ submission.phase = "insert"
          /\ submission.user # None
          /\ r.user_id = submission.user
     /\ (submission.phase = "getUser" /\ submission'.phase = "insert")
          => (authUser # None /\ submission'.user = authUser)
     /\ (submission.phase = "getUser" /\ authUser = None)
          => (submission'.phase # "insert" /\ reservations' = reservations)]_vars

\* one reservation was stored from the visitor form, and a later submission
\* of the same page found no user and stored nothing
C4_Witness ==
  /\ authUser = None
  /\ formError # Null
  /\ submission = NoSubmission
  /\ nextReservationId = 2
  /\ \E r \in reservations : r.visitor_data /\ r.user_id = session

RECURSIVE LineSum(_, _)
\* the sum of quantity x unit price over the lines i, i+1, ... of cart c
LineSum(c, i) ==
  IF i > Len(c)
    THEN 0
    ELSE (c[i].quantity * c[i].product.price) + LineSum(c, i + 1)

\* C5: after every cart operation calculateTotal is the sum of quantity x unit
\* price over the cart lines; a checkout keeps the cart it was submitted with,
\* and the total_price of the header it inserts is that sum for that cart.
C5_TotalIsSum ==
  [][/\ CalculateTotal(cart') = LineSum(cart', 1)
     /\ (checkout.phase = "idle" /\ checkout'.phase # "idle")
          => checkout'.cart = cart
     /\ (checkout.phase # "idle" /\ checkout'.phase # "idle")
          => checkout'.cart = checkout.cart
     /\ (checkout.phase = "header" /\ checkout'.phase = "items")
          => \E r \in productReservations' \ productReservations :
                /\ r.id = checkout'.reservation
                /\ r.total_price = LineSum(checkout.cart, 1)]_vars

\* the header of a cart of 10.00 x 2 and 5.50 x 1 is stored with 25.50, while
\* the cart on the page was changed after the submission
C5_Witness ==
  /\ checkout.phase = "items"
  /\ Len(checkout.cart) = 2
  /\ cart # checkout.cart
  /\ cart # << >>
  /\ \E r \in productReservations :
        r.id = checkout.reservation /\ r.total_price = 2550

\* the item rows of order id, in insert order
ItemRowsOf(id) ==
  SelectSeq(productReservationItems, LAMBDA row : row.reservation_id = id)

RECURSIVE RowSum(_)
\* the sum of quantity x unit_price over a sequence of item rows
RowSum(rows) ==
  IF rows = << >>
    THEN 0
    ELSE (Head(rows).quantity * Head(rows).unit_price) + RowSum(Tail(rows))

\* C6: a checkout that succeeds appends one item row per line of the cart it
\* was submitted with, each with the id of the header this checkout inserted
\* and with the product id, quantity and product price of its line, and the
\* header's total_price is the sum of quantity x unit_price over these rows.
C6_ItemRowsMatchCart ==
  [][(/\ checkout.phase = "items"
      /\ checkout'.phase = "idle"
      /\ productReservationItems' # productReservationItems)
     => LET c == checkout.cart
            n == Len(productReservationItems)
        IN  /\ Len(productReservationItems') = n + Len(c)
            /\ SubSeq(productReservationItems', 1, n) = productReservationItems
            /\ \A i \in 1..Len(c) :
                  productReservationItems'[n + i] =
                    [reservation_id |-> checkout.reservation,
                     product_id |-> c[i].product.id,
                     quantity |-> c[i].quantity,
                     unit_price |-> c[i].product.price]
            /\ \E h \in productReservations' :
                  /\ h.id = checkout.reservation
                  /\ h.total_price = RowSum(ItemRowsOf(h.id)')]_vars

\* the scenario: cart 10.00 x 2 and 5.50 x 1 is stored as a header of 25.50
\* with two item rows of unit prices 10.00 and 5.50
C6_Witness ==
  /\ checkout = NoCheckout
  /\ message = SuccessMessage
  /\ \E h \in productReservations :
        /\ h.total_price = 2550
        /\ Len(ItemRowsOf(h.id)) = 2
        /\ ItemRowsOf(h.id)[1].unit_price = 1000
        /\ ItemRowsOf(h.id)[1].quantity = 2
        /\ ItemRowsOf(h.id)[2].unit_price = 550
        /\ ItemRowsOf(h.id)[2].quantity = 1

\* C7: when the item insert of a checkout fails after its header insert
\* succeeded, the header stays stored and has no item rows, the table of
\* headers is not written, an error message is set, and the cart and the
\* pickup date are as they were.
C7_NoCompensation ==
  [][(/\ checkout.phase = "items"
      /\ checkout'.phase = "idle"
      /\ productReservationItems' = productReservationItems)
     => /\ productReservations' = productReservations
        /\ \E h \in productReservations' : h.id = checkout.reservation
        /\ ItemRowsOf(checkout.reservation)' = << >>
        /\ message' # Null
        /\ message'[1].type = "error"
        /\ cart' = cart
        /\ pickupDate' = pickupDate]_vars

\* an order header without item rows is stored, the error is shown and the
\* form still holds the cart and the date
C7_Witness ==
  /\ checkout = NoCheckout
  /\ ~isSubmitting
  /\ message = ErrorMessage("Erro ao processar reserva")
  /\ cart # << >>
  /\ pickupDate # ""
  /\ \E h \in productReservations : ItemRowsOf(h.id) = << >>

\* the status changes the admin buttons of the richer variant stand for
ExposedTransitions ==
  { << "pending", "confirmed" >>, << "pending", "rejected" >>,
    << "confirmed", "canceled" >> }

\* C10 as stated: in the richer variant every change of a stored reservation's
\* status is pending -> confirmed, pending -> rejected or confirmed ->
\* canceled, from the status stored when the write happens.
C10_StoredTransitions ==
  [][variant = "rich"
     => \A r \in reservations, r2 \in reservations' :
           (r.id = r2.id /\ r.status # r2.status)
             => << r.status, r2.status >> \in ExposedTransitions]_vars

\* C10, amended: in the richer variant every write to a stored reservation
\* comes from an admin browser whose fetched list shows that reservation with
\* a status from which the written status is one of pending -> confirmed,
\* pending -> rejected, confirmed -> canceled; that browser then refetches.
C10_ListedTransitions ==
  [][variant = "rich"
     => \A r \in reservations, r2 \in reservations' :
           (r.id = r2.id /\ r # r2)
             => \E s \in refetching' : \E l \in allReservations[s] :
                   /\ l.id = r2.id
                   /\ << l.status, r2.status >> \in ExposedTransitions]_vars

\* two admin browsers acted on lists fetched earlier: the first confirmed and
\* refetched, then the second, whose list still showed pending, rejected
C10_Witness ==
  /\ variant = "rich"
  /\ \E r \in reservations :
        /\ r.status = "rejected"
        /\ [id |-> r.id, status |-> "confirmed"] \in allReservations[1]
        /\ [id |-> r.id, status |-> "pending"] \in allReservations[2]
        /\ refetching = {2}

\* C11: a row of the lodging reservations or of the shop orders disappears
\* only in a browser whose user is admin, and a delete handler whose
\* confirmation prompt was declined removes no row.
C11_DeleteAdminConfirmed ==
  [][/\ (\E r \in productReservations :
            \A r2 \in productReservations' : r2.id # r.id) => isAdmin
     /\ (\E r \in reservations : \A r2 \in reservations' : r2.id # r.id)
          => isAdmin
     /\ \A id \in 1..MaxProductReservations, ok \in BOOLEAN :
          ShopHandleDeleteReservation(id, FALSE, ok)
            => productReservations' = productReservations
     /\ \A s \in AdminSessions, id \in 1..MaxReservations, ok \in BOOLEAN :
          HandleDeleteReservation(s, id, FALSE, ok)
            => reservations' = reservations]_vars

\* an event is over on day today: its end_date, or its start_date when it has
\* no end_date, is strictly before today
EventIsOver(ev, today) ==
  IF ev.end_date # Null THEN ev.end_date[1] < today ELSE ev.start_date < today

\* C12: the list that fetchEvents sets holds no event that is over on the
\* user's day, holds every other stored event, and is in ascending
\* start_date order.
C12_EventsListed ==
  [][FetchEventsResolves(TRUE)
     => LET list == events'[1]
            listed == { list[i] : i \in 1..Len(list) }
        IN  /\ \A ev \in listed : ~EventIsOver(ev, clock.local)
            /\ \A ev \in eventsTable : ~EventIsOver(ev, clock.local) => ev \in listed
            /\ \A i, j \in 1..Len(list) :
                  i < j => list[i].start_date <= list[j].start_date]_vars

\* C13: in every step that deletes an album row, every gallery item of that
\* album is gone with it or before it: none of its rows is left and none of
\* their objects is left in the store.
C13_AlbumDeletedAfterItems ==
  [][\A a \in albums \ albums' :
       \A r \in fileRows["gallery"] :
          r.album_id = a
            => /\ r.file_path \notin fileObjects'["gallery"]
               /\ \A r2 \in fileRows'["gallery"] : r2.id # r.id]_vars

\* C14: a step that deletes the row of a document or photo leaves no object
\* of it in the store, and a delete operation that ends with the row still
\* stored has not removed the object the row points at.
C14_ObjectGoesWithRow ==
  [][/\ \A b \in Buckets :
          \A r \in fileRows[b] :
             (fileDelete.phase = "delete" /\ fileDelete.bucket = b
                /\ fileDelete.id = r.id
                /\ \A r2 \in fileRows'[b] : r2.id # r.id)
               => r.file_path \notin fileObjects'[b]
     /\ (fileDelete.phase = "delete" /\ fileDelete'.phase = "idle"
           /\ fileDelete.removed)
          => \A r \in fileRows'[fileDelete.bucket] : r.id # fileDelete.id]_vars

\* C15: when the removal of one item writes the order's total_price, the new
\* value is the old one minus quantity x unit_price of the removed item, or
\* zero when that difference is negative.
C15_TotalAfterRemoval ==
  [][\A r \in productReservations :
       (itemRemoval.phase = "total" /\ itemRemoval.order = r.id
          /\ orderNotes' # orderNotes)
         => \E r2 \in productReservations' :
               /\ r2.id = r.id
               /\ LET diff == r.total_price
                               - itemRemoval.item.quantity * itemRemoval.item.unit_price
                  IN  r2.total_price = IF diff < 0 THEN 0 ELSE diff]_vars

\* the removal of the first item was written with a negative difference: the
\* total is zero while the second item is left
C15_Witness ==
  /\ itemRemoval = NoItemRemoval
  /\ orderNotes[1] = << 1 >>
  /\ Len(productReservationItems) = 1
  /\ productReservationItems[1].product_id = 2
  /\ \E r \in productReservations : r.id = 1 /\ r.total_price = 0

\* C16: while a session exists every change of the current page is written
\* to the stored entry and a reload restores the current page; every step
\* that ends the session, and every auth event without session, leaves the
\* stored entry absent and the current page Home; the sign-in that follows
\* starts on Home.
C16_LastPagePersisted ==
  [][/\ (session' # None /\ currentPage' # currentPage) => lastPage' = currentPage'
     /\ (session # None /\ boot = "mounted" /\ boot' = "getSession")
          => currentPage' = currentPage
     /\ ((session # None /\ session' = None /\ boot' = boot)
           \/ (authUser # None /\ authUser' = None))
          => (lastPage' = None /\ currentPage' = "home")
     /\ (session = None /\ session' # None /\ boot' = boot /\ lastPage = None)
          => currentPage' = "home"]_vars

\* C18: a write of handleToggleApproval changes nothing but approved of the
\* targeted profile, a write of handleToggleRole nothing but its role; a role
\* is written only by a handleToggleRole whose confirm() was accepted; a
\* declined confirm() and a failed update leave the stored profiles and the
\* list of the page as they were.
C18_SingleFieldWrites ==
  [][/\ (adminOp.phase = "update" /\ adminOp'.phase = "idle"
           /\ adminOp.handler = "approval")
          => \A u \in Users :
                \/ profiles'[u] = profiles[u]
                \/ /\ u = adminOp.id
                   /\ profiles'[u] = [profiles[u] EXCEPT !.approved = adminOp.approved]
     /\ (adminOp.phase = "update" /\ adminOp'.phase = "idle"
           /\ adminOp.handler = "role")
          => \A u \in Users :
                \/ profiles'[u] = profiles[u]
                \/ /\ u = adminOp.id
                   /\ profiles'[u] = [profiles[u] EXCEPT !.role = adminOp.role]
     /\ \A u \in Users :
          (profiles[u].exists /\ profiles'[u].exists
             /\ profiles'[u].role # profiles[u].role)
            => (adminOp.phase = "update" /\ adminOp.handler = "role" /\ adminOp.id = u)
     /\ (adminOp'.phase = "update" /\ adminOp'.handler = "role"
           /\ adminOp.phase # "update")
          => adminOp.phase = "confirm"
     /\ (adminOp.phase = "confirm" /\ adminOp'.phase = "idle")
          => (profiles' = profiles /\ adminProfiles' = adminProfiles)
     /\ (adminOp.phase = "update" /\ adminOp'.phase = "alert")
          => (profiles' = profiles /\ adminProfiles' = adminProfiles)]_vars

\* the update of an accepted role change has failed: the alert is open, the
\* stored role and the listed role of the profile are not the new role
C18_Witness ==
  /\ adminOp.phase = "alert"
  /\ adminOp.handler = "role"
  /\ profiles[adminOp.id].exists
  /\ profiles[adminOp.id].role # adminOp.role
  /\ adminProfiles[adminOp.id].role # adminOp.role

\* C19: the write of a confirmed handleDeleteUser removes the profile row of
\* the targeted account and nothing else: the account stays registered, the
\* lodging reservations, the shop orders and their items stay stored; and
\* when the lookup of a signed-in account finishes after reading no row, the
\* gate shows the pending screen, or the portal for the super-admin.
C19_DeleteUserOnlyProfile ==
  [][/\ (adminOp.phase = "update" /\ adminOp'.phase = "idle"
           /\ adminOp.handler = "delete")
          => /\ profiles' = [profiles EXCEPT ![adminOp.id] = NoRow]
             /\ \A id \in Users : id = adminOp.id => SelectProfile(id)' = << >>
             /\ registered' = registered
             /\ authUser' = authUser
             /\ reservations' = reservations
             /\ productReservations' = productReservations
             /\ productReservationItems' = productReservationItems
     /\ \A l \in BagToSet(lookups) :
          ( /\ LookupGetUserResolves(l)
            /\ l.phase = "getUser"
            /\ session = l.userId
            /\ authUser = l.userId
            /\ Len(l.data) = 0 )
          => Render' = IF IsSuperAdmin(l.userId) THEN "portal" ELSE "pending"]_vars

\* the account whose profile was deleted has signed in again and is on the
\* pending screen; its reservation and its order are still stored
C19_Witness ==
  /\ profiles["a@b.com"] = NoRow
  /\ "a@b.com" \in registered
  /\ session = "a@b.com"
  /\ Render = "pending"
  /\ lookups = EmptyBag
  /\ \E r \in reservations : r.user_id = "a@b.com"
  /\ \E r \in productReservations : r.user_id = "a@b.com"
  /\ Len(productReservationItems) > 0

\* C17: while a session exists, the inactivity timer invokes the sign-out
\* exactly when the 30-minute window has passed since the last activity event
\* (or since the session started): it fires only then, time does not pass the
\* end of the window with the timer still pending, each activity event arms
\* the full window, and no timer is armed once the session is gone.
C17_InactivitySignOut ==
  [][/\ (timer = Some(0) /\ timer' = Null /\ session' = session /\ session # None)
          => sinceActivity = TicksPerWindow
     /\ (session # None /\ timer # Null /\ sinceActivity' = sinceActivity + 1)
          => sinceActivity < TicksPerWindow
     /\ (session # None /\ session' = session /\ sinceActivity' = 0
            /\ boot' = boot /\ lookups' = lookups)
          => timer' = Some(TicksPerWindow)
     /\ session' = None => timer' = Null]_vars

\* C17 without the exactness: the timer never fires before the window has
\* passed, each activity event arms the full window, no timer is armed without
\* a session
C17_NotBeforeWindow ==
  [][/\ (timer = Some(0) /\ timer' = Null /\ session' = session /\ session # None)
          => sinceActivity >= TicksPerWindow
     /\ (session # None /\ session' = session /\ sinceActivity' = 0
            /\ boot' = boot /\ lookups' = lookups)
          => timer' = Some(TicksPerWindow)
     /\ session' = None => timer' = Null]_vars

\* the reservation of rows with the latest check_in, when there is one
MostRecent(rows) ==
  { r \in rows : \A o \in rows \ {r} :
      reservationColumns[o.id].check_in < reservationColumns[r.id].check_in }

\* a text in which neither /CPF:/i nor /Telefone:/i finds a label
HasNoLabel(text) ==
  \A i \in 1..Len(text) : text[i] \notin CpfLabels \cup PhoneLabels

\* C20: a registry fetch that succeeds lists, for every visitor whose most
\* recent reservation came from the visitor form with host name h, CPF c and
\* phone p, the values h, trimmed c and trimmed p, whatever was typed into the
\* notes; a visitor without reservations gets the placeholder three times;
\* no step of the fetch changes a table.
C20_RegistryShowsSubmitted ==
  [][/\ FetchVisitorsReservationsResolves(TRUE) =>
          \A v \in visitors' :
            /\ MyRes(reservations, v.id) = {} =>
                 (v.cpf = Placeholder /\ v.phone = Placeholder
                    /\ v.host_name = Placeholder)
            /\ \A r \in MostRecent(MyRes(reservations, v.id)) :
                 r.visitor_data =>
                   /\ v.host_name = submittedForms[r.id].name
                   /\ v.cpf = Trim(submittedForms[r.id].visitorCpf)
                   /\ v.phone = Trim(submittedForms[r.id].visitorPhone)
     /\ visitorsFetch' # visitorsFetch =>
          (reservations' = reservations /\ reservationColumns' = reservationColumns
             /\ profiles' = profiles)]_vars

\* C20 without the host name and for notes in which the visitor typed neither
\* "CPF:" nor "Telefone:"
C20_WithoutHostAndLabels ==
  [][/\ FetchVisitorsReservationsResolves(TRUE) =>
          \A v \in visitors' :
            /\ MyRes(reservations, v.id) = {} =>
                 (v.cpf = Placeholder /\ v.phone = Placeholder
                    /\ v.host_name = Placeholder)
            /\ \A r \in MostRecent(MyRes(reservations, v.id)) :
                 (r.visitor_data /\ HasNoLabel(submittedForms[r.id].notes)) =>
                   /\ v.cpf = Trim(submittedForms[r.id].visitorCpf)
                   /\ v.phone = Trim(submittedForms[r.id].visitorPhone)
     /\ visitorsFetch' # visitorsFetch =>
          (reservations' = reservations /\ reservationColumns' = reservationColumns
             /\ profiles' = profiles)]_vars

\* C20 with the host name, for notes without labels
C20_HostNameShown ==
  [][FetchVisitorsReservationsResolves(TRUE) =>
       \A v \in visitors' :
         \A r \in MostRecent(MyRes(reservations, v.id)) :
           (r.visitor_data /\ HasNoLabel(submittedForms[r.id].notes)) =>
             v.host_name = submittedForms[r.id].name]_vars

\* C21: every entry into the events page calls delete_old_events exactly
\* once, in both variants of the page; the routine's outcome leaves the fetch
\* of the list as it is, and the list is set when the fetch resolves whether
\* or not the routine failed.
C21_CleanupOncePerMount ==
  [][/\ eventsMount'.mounts = eventsMount.mounts + 1
          => eventsMount'.rpcCalls = eventsMount.rpcCalls + 1
     /\ eventsMount'.mounts = eventsMount.mounts
          => eventsMount'.rpcCalls = eventsMount.rpcCalls
     /\ (eventsMount.rpc /\ ~eventsMount'.rpc)
          => (eventsMount'.fetching = eventsMount.fetching /\ events' = events)
     /\ FetchEventsResolves(TRUE) => events' # Null]_vars

\* C21 for the variant part_001 alone
C21_CleanupOncePerMount_Part001 ==
  [][eventsMount.variant = "part_001" =>
       /\ eventsMount'.mounts = eventsMount.mounts + 1
            => eventsMount'.rpcCalls = eventsMount.rpcCalls + 1
       /\ eventsMount'.mounts = eventsMount.mounts
            => eventsMount'.rpcCalls = eventsMount.rpcCalls
       /\ (eventsMount.rpc /\ ~eventsMount'.rpc)
            => (eventsMount'.fetching = eventsMount.fetching /\ events' = events)
       /\ FetchEventsResolves(TRUE) => events' # Null]_vars

\* C22: in the richer variant an update that rejects or confirms stores the
\* new status together with the text the prompt returned (the empty string
\* when left blank); a dismissed prompt writes nothing, so a status never
\* becomes rejected or confirmed without a note being stored with it.
C22_NoteStoredWithStatus ==
  [][variant = "rich" =>
       /\ \A s \in AdminSessions, id \in 1..MaxReservations,
             newStatus \in {"rejected", "confirmed"}, adminNote \in PromptResults :
            HandleUpdateStatus(s, id, newStatus, adminNote, TRUE) =>
              IF adminNote = Null
                THEN reservations' = reservations
                ELSE \A r2 \in reservations' :
                       r2.id = id => (r2.status = newStatus
                                        /\ r2.admin_notes = Some(adminNote[1]))
       /\ \A r \in reservations, r2 \in reservations' :
            (r.id = r2.id /\ r2.status # r.status
               /\ r2.status \in {"rejected", "confirmed"})
              => r2.admin_notes # Null]_vars

\* a reservation was rejected with a reason typed into the prompt
C22_Witness ==
  /\ variant = "rich"
  /\ \E r \in reservations :
        r.status = "rejected" /\ r.admin_notes = Some("chale 2")

\* the flags a lookup of user u that reads the stored profile sets
FlagsOfProfile(u) == FlagsFromData(SelectProfile(u), u)

\* C23: whenever the portal layout is rendered, isApproved is set and the
\* three flags are those a lookup of the current session's user gives: from
\* that user's stored profile, or, for the super-admin whose query failed,
\* approved and admin.  No interleaving of auth events and of completions of
\* lookups in flight makes a lookup of an earlier session decide them.
C23_PortalFlagsOfSessionUser ==
  Render = "portal" =>
    /\ isApproved # Null
    /\ \/ /\ isApproved = FlagsOfProfile(session).isApproved
          /\ isAdmin = FlagsOfProfile(session).isAdmin
          /\ isVisitor = FlagsOfProfile(session).isVisitor
       \/ /\ IsSuperAdmin(session)
          /\ isApproved = Some(TRUE)
          /\ isAdmin

\* C23 (second half): the portal is never rendered while isApproved is unset.
C23_NeverUnsetInPortal == Render = "portal" => isApproved # Null

\* the two pages renderContent shows to administrators only
AdminOnlyPages == {"visitors", "admin_users"}

\* C24: while isAdmin is false the portal never shows the access-control page
\* or the visitor registry: whatever currentPage was restored or selected,
\* renderContent gives the home page for those two page values.
C24_AdminPagesNeedAdmin ==
  (Render = "portal" /\ ~isAdmin) =>
    /\ RenderContent(currentPage, isAdmin, isVisitor)
         \notin {"AdminUsersPage", "VisitorsPage"}
    /\ currentPage \in AdminOnlyPages =>
         RenderContent(currentPage, isAdmin, isVisitor) = "HomePage"

C24_Witness ==
  /\ Render = "portal"
  /\ ~isAdmin
  /\ currentPage = "admin_users"
  /\ RenderContent(currentPage, isAdmin, isVisitor) = "HomePage"

\* C25: a successful handleToggleApproval flips the stored value: after its
\* write the approved value of the row is the negation of the value stored
\* immediately before the write, also when another session changed the row
\* after this session fetched its list.
C25_ApprovalFlipped ==
  [][(/\ adminOp.phase = "update"
      /\ adminOp.handler = "approval"
      /\ adminOp'.phase = "idle"
      /\ profiles[adminOp.id].exists)
       => profiles'[adminOp.id].approved = ~profiles[adminOp.id].approved]_vars

\* the deltas updateQuantity is applied with below: the two the buttons send
\* and others, past the lower limit in both directions
CartDeltas == -3..3

\* at most one line per product, every quantity at least one
CartWellFormed(c) ==
  /\ \A i, j \in 1..Len(c) : c[i].product.id = c[j].product.id => i = j
  /\ \A i \in 1..Len(c) : c[i].quantity >= 1

\* C26: every cart that addToCart, removeFromCart and updateQuantity produce
\* has at most one line per product id and only quantities of at least one;
\* this stays so when each of the three is applied to it, updateQuantity with
\* any delta, and updateQuantity keeps every line, in place, and changes no
\* line of another product.
C26_CartLines ==
  /\ CartWellFormed(cart)
  /\ \A productId \in ProductIds :
       /\ CartWellFormed(AddToCartResult(cart, [id |-> productId,
                                                price |-> Catalog[productId]]))
       /\ CartWellFormed(RemoveFromCartResult(cart, productId))
       /\ \A delta \in CartDeltas :
            LET next == UpdateQuantityResult(cart, productId, delta)
            IN  /\ CartWellFormed(next)
                /\ Len(next) = Len(cart)
                /\ \A i \in 1..Len(cart) :
                     /\ next[i].product = cart[i].product
                     /\ cart[i].product.id # productId => next[i] = cart[i]

C26_Witness ==
  /\ Len(cart) = 2
  /\ cart[1].quantity = 1
  /\ cart[2].quantity = MaxQuantity
  /\ UpdateQuantityResult(cart, cart[1].product.id, -3)[1].quantity = 1
  /\ UpdateQuantityResult(cart, cart[2].product.id, -1)[2].quantity = MaxQuantity - 1

\* C27: after every change of the number of guests, whatever was typed, and
\* every edit of a guest, numGuests is at least 1 and guestsDetails has
\* exactly numGuests entries.
C27_GuestListMatchesCount ==
  /\ form.numGuests >= 1
  /\ Len(form.guestsDetails) = form.numGuests

\* C27 (kept entries): a change of the number of guests leaves the entries
\* that stay in the list as they were.
C27_KeptEntriesUnmodified ==
  [][(\E text \in GuestInputs : HandleNumGuestsChange(text)) =>
       \A i \in 1..Len(form'.guestsDetails) :
          i <= Len(form.guestsDetails) =>
            form'.guestsDetails[i] = form.guestsDetails[i]]_vars

\* C27 (stored rows): every inserted reservation has num_guests equal to the
\* length of its guests_details.
C27_StoredCountMatches ==
  \A id \in DOMAIN reservationColumns :
     reservationColumns[id].num_guests = Len(reservationColumns[id].guests_details)

\* C28: the reject action of the shop page on a pending order ends with the
\* order stored as rejected: once the button of the row was pressed, the row
\* is at some time stored with the status rejected, unless it is deleted.
C28_RejectEndsRejected ==
  \A id \in 1..MaxProductReservations :
     (rejectionModal.show /\ rejectionModal.id = Some(id))
       ~> (\A r \in productReservations : r.id = id => r.status = "rejected")

\* an order stored as completed, after Aprovar and Entregar
C28_Completed == \E r \in productReservations : r.status = "completed"

\* C28 (what the page can store): no step of the page stores the status
\* rejected.
C28_NeverRejected ==
  [][\A r \in productReservations' :
       r.status = "rejected" => r \in productReservations]_vars

\* C29: on the finance, documents and gallery pages the admin controls are
\* enabled exactly when the App's isAdmin is true: once the page's checkAdmin
\* has completed, the page's isAdmin equals the App's, also for the
\* super-admin whose profile row is missing or has another role.
C29_PageAdminIsAppAdmin ==
  \A p \in AdminCheckedPages :
     (currentPage = p /\ pageAdmin[p].phase = "done")
       => pageAdmin[p].isAdmin = isAdmin

\* C30: a confirmed role toggle is an involution, for each of the roles
\* member, admin and visitor: when the write of handleToggleRole has
\* succeeded, the role handleToggleRole computes from the role now stored is
\* the role that was stored before, so that a second toggle restores it.
C30_RoleToggleInvolution ==
  [][(/\ adminOp.phase = "update"
      /\ adminOp.handler = "role"
      /\ adminOp'.phase = "idle"
      /\ profiles[adminOp.id].exists)
       => ToggledRole(profiles'[adminOp.id].role) = profiles[adminOp.id].role]_vars

\* C30 (member and admin): the same for the rows stored as member or admin.
C30_MemberAdminInvolution ==
  [][(/\ adminOp.phase = "update"
      /\ adminOp.handler = "role"
      /\ adminOp'.phase = "idle"
      /\ profiles[adminOp.id].exists
      /\ profiles[adminOp.id].role \in {"member", "admin"})
       => ToggledRole(profiles'[adminOp.id].role) = profiles[adminOp.id].role]_vars

====
